---- MODULE Spec2Model ----
(***************************************************************************)
(* A model of the laser simulator engine (package laser_simulator): the    *)
(* control state and its setters (set_control, the OSC handlers), the      *)
(* effect pipeline run by update() (visual preset, pulse, strobe,          *)
(* movement, master dimmer) and the Movement effect's transient state.     *)
(*                                                                         *)
(* Numbers.  Python floats are modelled in fixed point:                    *)
(*   - a tick timestamp is an integer count of 1/TimeDen seconds;          *)
(*   - an OSC float argument is an integer count of 1/OscDen;              *)
(*   - a brightness multiplier is an integer count of 1/1000 (per mille);  *)
(*   - a movement position is an integer count of 1/(3*TimeDen) laser      *)
(*     steps, the unit in which time*speed/3 is exact.                     *)
(* Enum members are modelled by their member names, enum labels (the       *)
(* .value of a member) by the label strings of models/enums.py.            *)
(*                                                                         *)
(* The DMX output is the 512-slot channel buffer of DMXController, the      *)
(* per-laser addresses and the last packet written to the port.            *)
(*                                                                         *)
(* The monolithic engine (src/laser_simulator.py) is modelled next to the  *)
(* package's, in the variable mono, under the same controls and timestamps.*)
(*                                                                         *)
(* The specifications share the variables:                                 *)
(*   Spec         set_control calls and whole ticks, one after the other;  *)
(*   SpecMove     the same for the movement controls, each tick recording  *)
(*                the movement state it started from and its delta time;   *)
(*   SpecDmx      construction over the DMX configurations, ticks with     *)
(*                DMX output, and set_dmx_address calls;                   *)
(*   SpecChannel  update_laser and set_channel_value on the DMX buffer;    *)
(*   SpecOutput   ticks whose write to the DMX port succeeds or fails;     *)
(*   SpecAddress  set_dmx_address and reset calls among control writes     *)
(*                and ticks;                                               *)
(*   SpecLoop     the movement progress over speed, count and loop;        *)
(*   SpecPulse    ticks under the manual and beat-synced pulse controls;   *)
(*   SpecRefactor the package's engine and the monolithic one in step;     *)
(*   SpecPreset   the visual presets and the master dimmer;                *)
(*   SpecControl  the control plane: set_control calls and OSC handlers;   *)
(*   SpecOsc      inbound OSC messages routed through the dispatcher;      *)
(*   SpecWeb      the web server: connect handlers, control changes and    *)
(*                the simulator loops they start;                          *)
(*   SpecBeat     ticks under beat-synced movement, the corner             *)
(*                directions among the movements;                          *)
(*   SpecDirection every label of ScrollDirection selected, then ticks;    *)
(*   SpecAxis     the four axis directions under presets, build, loop      *)
(*                and phase;                                               *)
(*   SpecPrecedence ticks under the sliders and the beat rates of pulse    *)
(*                and strobe;                                              *)
(*   SpecRace     a tick as the sequence of its stages, interleaved with   *)
(*                the writes of the inbound channel's thread.              *)
(***************************************************************************)
EXTENDS Integers, Sequences, FiniteSets, TLC

VARIABLES controls, brightness, movement, last, tick, nOps, dmx, hist, mono,
          web

vars == <<controls, brightness, movement, last, tick, nOps, dmx, hist, mono, web>>

-----------------------------------------------------------------------------
(* Bounds of the model.                                                    *)

\* control operations (set_control calls, OSC messages) in one run of the
\* control-plane specification
MaxOps == 2

\* set_control calls in one run of the engine specification
MaxChanges == 3

\* the clock: successive ticks take increasing timestamps among
\* 14*k / TimeDen seconds, k in 0 .. MaxTime
MaxTime == 2

\* outcomes of random.shuffle that are explored
NumShuffles == 2

\* set_control calls in one run of the movement specification
MaxMoveChanges == 3

\* set_control and set_dmx_address calls in one run of the DMX specification
MaxDmxOps == 2

-----------------------------------------------------------------------------
(* Program constants.                                                      *)

TOP_LASER_COUNT == 14

SIDE_LASER_COUNT == 14

DEFAULT_BRIGHTNESS == 255

TotalLasers == TOP_LASER_COUNT + SIDE_LASER_COUNT

LaserIdx == 0 .. (TotalLasers - 1)

\* Laser.orientation of the flat array built by _initialize_lasers
IsTop(i) == i < TOP_LASER_COUNT

-----------------------------------------------------------------------------
(* models/enums.py: each enum class as the function member name -> label.  *)

VisualPreset ==
  [ GRID |-> "Grid", BRACKET |-> "Bracket", L_BRACKET |-> "L Bracket",
    S_CROSS |-> "S Cross", CROSS |-> "Cross", L_CROSS |-> "L Cross",
    S_DBL_CROSS |-> "S Dbl Cross", DBL_CROSS |-> "Dbl Cross",
    L_DBL_CROSS |-> "L Dbl Cross", CUBE |-> "Cube",
    FOUR_CUBES |-> "4 Cubes", NINE_CUBES |-> "9 Cubes" ]

ScrollDirection ==
  [ NONE |-> "None", LEFT_TO_RIGHT |-> "L to R", RIGHT_TO_LEFT |-> "R to L",
    TOP_TO_BOTTOM |-> "T to B", BOTTOM_TO_TOP |-> "B to T",
    TO_TL |-> "To TL", TO_TR |-> "To TR", TO_BL |-> "To BL", TO_BR |-> "To BR",
    OUT_FROM_CENTER |-> "Out from Center",
    TOWARDS_CENTER |-> "Towards Center", LOOP_CENTER |-> "Loop Center",
    PINWHEEL |-> "Pinwheel", SPOT |-> "Spot" ]

EffectApplication == [ ALL |-> "All", ALTERNATE |-> "Alternate" ]

BeatRate ==
  [ OFF |-> "Off", ONE_THIRD |-> "1/3", ONE_HALF |-> "1/2", ONE |-> "1",
    FOUR |-> "4" ]

\* the labels of an enum class
Labels(E) == { E[m] : m \in DOMAIN E }

\* a conversion that answers an unknown label with some member of the
\* class instead of raising ValueError
EnumByValueLenient(E, value) ==
  IF \E m \in DOMAIN E : E[m] = value
  THEN [ok |-> TRUE, member |-> CHOOSE m \in DOMAIN E : E[m] = value]
  ELSE [ok |-> TRUE, member |-> CHOOSE m \in DOMAIN E : TRUE]

\* Enum.__call__: enum_class(value) looks the member up by its label and
\* raises ValueError when no member has it
EnumByValue(E, value) ==
  IF \E m \in DOMAIN E : E[m] = value
  THEN [ok |-> TRUE, member |-> CHOOSE m \in DOMAIN E : E[m] = value]
  ELSE [ok |-> FALSE, member |-> "ValueError"]

-----------------------------------------------------------------------------
(* core/state.py: ControlsState.                                           *)

\* the dataclass defaults
ControlsState ==
  [ dimmer |-> 100, strobe |-> 0, pulse |-> 0,
    effect_application |-> "ALL", visual_preset |-> "GRID",
    scroll_direction |-> "NONE", laser_move_speed |-> 60,
    shocker_speed |-> 50, saber_speed |-> 50,
    scroll_laser_count |-> 8, scroll_fade |-> 90, scroll_phase |-> 0,
    loop_effect |-> FALSE, scroll_build_effect |-> FALSE,
    show_laser_origins |-> FALSE,
    beat_sync_enabled |-> FALSE, bpm |-> 140,
    beat_strobe_rate |-> "OFF", beat_pulse_rate |-> "OFF",
    beat_laser_move_speed_rate |-> "OFF",
    beat_shocker_speed_rate |-> "OFF", beat_saber_speed_rate |-> "OFF" ]

FieldNames == DOMAIN ControlsState

BeatRateFields ==
  { "beat_strobe_rate", "beat_pulse_rate", "beat_laser_move_speed_rate",
    "beat_shocker_speed_rate", "beat_saber_speed_rate" }

\* the fields whose default is an enum member (hasattr(current_value, 'value'))
EnumFields ==
  { "effect_application", "visual_preset", "scroll_direction" } \cup BeatRateFields

BoolFields ==
  { "loop_effect", "scroll_build_effect", "show_laser_origins",
    "beat_sync_enabled" }

NumericFields == (FieldNames \ EnumFields) \ BoolFields

\* type(current_value) of an enum field
EnumClassOf(name) ==
  CASE name = "effect_application" -> EffectApplication
    [] name = "visual_preset" -> VisualPreset
    [] name = "scroll_direction" -> ScrollDirection
    [] OTHER -> BeatRate

\* a to_dict that forgets the .value of the enum members
to_dict_members(c) == [ key \in FieldNames |-> c[key] ]

\* ControlsState.to_dict: enum members are reported by their label
to_dict(c) ==
  [ key \in FieldNames |->
      IF key \in EnumFields THEN EnumClassOf(key)[c[key]] ELSE c[key] ]

-----------------------------------------------------------------------------
(* core/simulator.py: the control API.                                     *)

\* _handle_osc_control without the special handling of scroll_direction:
\* every enum, the direction included, goes through enum_class(value)
HandleOscControlNoFallback(c, control_name, value) ==
  IF control_name \in FieldNames
  THEN IF control_name \in EnumFields
       THEN LET conv == EnumByValue(EnumClassOf(control_name), value)
            IN  IF conv.ok
                THEN [ controls |-> [c EXCEPT ![control_name] = conv.member],
                       raised |-> FALSE ]
                ELSE [ controls |-> c, raised |-> FALSE ]
       ELSE [ controls |-> [c EXCEPT ![control_name] = value],
              raised |-> FALSE ]
  ELSE [ controls |-> c, raised |-> FALSE ]

\* LaserSimulator._handle_osc_control: the controls after the call, and
\* whether an exception escapes it (the outer try/except lets none escape)
HandleOscControl(c, control_name, value) ==
  IF control_name \in FieldNames
  THEN IF control_name \in EnumFields
       THEN IF control_name = "scroll_direction"
            THEN \* the loop over ScrollDirection, then the fallback to NONE
                 IF \E direction \in DOMAIN ScrollDirection :
                      ScrollDirection[direction] = value
                 THEN [ controls |->
                          [c EXCEPT ![control_name] =
                             CHOOSE direction \in DOMAIN ScrollDirection :
                               ScrollDirection[direction] = value],
                        raised |-> FALSE ]
                 ELSE [ controls |-> [c EXCEPT ![control_name] = "NONE"],
                        raised |-> FALSE ]
            ELSE LET conv == EnumByValue(EnumClassOf(control_name), value)
                 IN  IF conv.ok
                     THEN [ controls |-> [c EXCEPT ![control_name] = conv.member],
                            raised |-> FALSE ]
                     ELSE \* except ValueError: keep the current value
                          [ controls |-> c, raised |-> FALSE ]
       ELSE [ controls |-> [c EXCEPT ![control_name] = value],
              raised |-> FALSE ]
  ELSE \* print("Unknown control")
       [ controls |-> c, raised |-> FALSE ]

\* LaserSimulator.set_control: True unless _handle_osc_control raises
set_control(c, control_name, value) ==
  LET r == HandleOscControl(c, control_name, value)
  IN  [ controls |-> r.controls, ret |-> ~r.raised ]

\* LaserSimulator.get_control (None for an unknown name)
get_control(c, control_name) ==
  IF control_name \in FieldNames THEN c[control_name] ELSE "None"

\* LaserSimulator.get_state()['controls']
get_state_controls(c) == to_dict(c)

-----------------------------------------------------------------------------
(* controllers/osc.py: the message handlers.  A float argument x is the    *)
(* integer x*OscDen; int() truncates toward zero.                          *)

OscDen == 100

\* int(x) of the float x = n/d, d > 0
PyInt(n, d) == IF n >= 0 THEN n \div d ELSE -((-n) \div d)

\* the (control_name, value) pair each handler passes to message_callback
OscCallback(leaf, arg) ==
  CASE leaf = "dimmer" -> <<"dimmer", PyInt(arg * 100, OscDen)>>
    [] leaf = "strobe" -> <<"strobe", PyInt(arg * 100, OscDen)>>
    [] leaf = "pulse" -> <<"pulse", PyInt(arg * 100, OscDen)>>
    [] leaf = "speed" -> <<"laser_move_speed", PyInt(arg * 100, OscDen)>>
    [] leaf = "fade" -> <<"scroll_fade", IF 2 * arg > OscDen THEN 90 ELSE 20>>
    [] leaf = "loop" -> <<"loop_effect", 2 * arg > OscDen>>
    [] leaf = "phase" -> <<"scroll_phase", IF 2 * arg > OscDen THEN 35 ELSE 0>>
    [] leaf = "build" -> <<"scroll_build_effect", 2 * arg > OscDen>>
    [] leaf = "preset" -> <<"visual_preset", arg>>
    [] leaf = "direction" -> <<"scroll_direction", arg>>
    [] leaf = "effect_mode" -> <<"effect_application", arg>>
    [] leaf = "laser_count" -> <<"scroll_laser_count", arg>>
    [] leaf = "beat_sync" -> <<"beat_sync_enabled", 2 * arg > OscDen>>
    [] leaf = "bpm" -> <<"bpm", PyInt(arg, OscDen)>>
    [] OTHER -> \* _handle_generic: the leaf as the control name
                <<leaf, arg>>

\* an inbound message <prefix>/<leaf>: its handler runs
\* message_callback = LaserSimulator._handle_osc_control
OscHandle(c, leaf, arg) ==
  LET cb == OscCallback(leaf, arg)
  IN  HandleOscControl(c, cb[1], cb[2])

-----------------------------------------------------------------------------
(* Fixed-point helpers.                                                    *)

\* resolution of a timestamp: time = n / TimeDen seconds
TimeDen == 24

Max(a, b) == IF a >= b THEN a ELSE b

Min(a, b) == IF a <= b THEN a ELSE b

Abs(a) == IF a >= 0 THEN a ELSE -a

\* floor(a / b) for b # 0 (Python's //)
PyFloorDiv(a, b) ==
  IF b > 0 THEN a \div b ELSE (-a) \div (-b)

\* Python's a % b for b # 0: the result has the sign of b
PyMod(a, b) == a - b * PyFloorDiv(a, b)

\* 1000*sin of the angle 2*pi*num/den (den > 0), the angle floored to a
\* multiple of 15 degrees
SinTable ==
  << 0, 259, 500, 707, 866, 966, 1000, 966, 866, 707, 500, 259,
     0, -259, -500, -707, -866, -966, -1000, -966, -866, -707, -500, -259 >>

Sin1000(num, den) == SinTable[(PyFloorDiv(24 * num, den) % 24) + 1]

\* int(b * m) for a brightness b >= 0 and a multiplier m = m1000/1000 >= 0
Scale1000(b, m1000) == (b * m1000) \div 1000

-----------------------------------------------------------------------------
(* beat_sync/sync.py: BeatSync.                                            *)

\* get_beat_rate_multiplier, as the fraction <<numerator, denominator>>
get_beat_rate_multiplier(rate) ==
  CASE rate = "ONE_THIRD" -> <<3, 1>>
    [] rate = "ONE_HALF" -> <<2, 1>>
    [] rate = "ONE" -> <<1, 1>>
    [] rate = "FOUR" -> <<1, 4>>
    [] OTHER -> <<0, 1>>

\* is_beat_effect_active
is_beat_effect_active(beat_sync_enabled, bpm, beat_rate) ==
  /\ beat_sync_enabled
  /\ bpm > 0
  /\ beat_rate # "OFF"
  /\ get_beat_rate_multiplier(beat_rate)[1] > 0

\* effect_duration = (60 / bpm) / rate_multiplier, in seconds, as a fraction
EffectDuration(bpm, beat_rate) ==
  LET m == get_beat_rate_multiplier(beat_rate)
  IN  <<60 * m[2], bpm * m[1]>>

\* calculate_beat_phase at time n/TimeDen, for an active beat effect:
\* phase = num/den in [0,1) and the cycle count
calculate_beat_phase(n, bpm, beat_rate) ==
  LET d == EffectDuration(bpm, beat_rate)
      den == d[1] * TimeDen
      x == n * d[2]
  IN  [ num |-> PyMod(x, den), den |-> den, cycle |-> PyFloorDiv(x, den) ]

-----------------------------------------------------------------------------
(* effects/visual_presets.py: VisualPresetEffect.                          *)

top_center == TOP_LASER_COUNT \div 2

side_center == SIDE_LASER_COUNT \div 2

\* the indices [top_indices, side_indices] each _apply_<preset> lights
PresetIndices(preset) ==
  LET T == TOP_LASER_COUNT
      S == SIDE_LASER_COUNT
  IN
  CASE preset = "GRID" -> [top |-> 0 .. T - 1, side |-> 0 .. S - 1]
    [] preset = "BRACKET" ->
         [top |-> {0, 1, 2, T - 3, T - 2, T - 1},
          side |-> {0, 1, 2, S - 3, S - 2, S - 1}]
    [] preset = "L_BRACKET" ->
         [top |-> {0, 1, 2, 3, 4, T - 5, T - 4, T - 3, T - 2, T - 1},
          side |-> {0, 1, 2, 3, 4, S - 5, S - 4, S - 3, S - 2, S - 1}]
    [] preset = "S_CROSS" ->
         [top |-> (top_center - 1) .. top_center, side |-> 2 .. 3]
    [] preset = "CROSS" ->
         [top |-> (top_center - 2) .. (top_center + 1), side |-> 2 .. 5]
    [] preset = "L_CROSS" ->
         [top |-> (top_center - 3) .. (top_center + 2), side |-> 2 .. 7]
    [] preset = "S_DBL_CROSS" ->
         [top |-> (top_center - 1) .. top_center,
          side |-> {2, 3, S - 4, S - 3}]
    [] preset = "DBL_CROSS" ->
         [top |-> (top_center - 2) .. (top_center + 1),
          side |-> {2, 3, 4, 5, S - 6, S - 5, S - 4, S - 3}]
    [] preset = "L_DBL_CROSS" ->
         [top |-> (top_center - 3) .. (top_center + 2),
          side |-> {2, 3, 4, 5, 6, 7, S - 8, S - 7, S - 6, S - 5, S - 4, S - 3}]
    [] preset = "CUBE" ->
         [top |-> {0, 1, T - 2, T - 1}, side |-> {0, 1, S - 2, S - 1}]
    [] preset = "FOUR_CUBES" ->
         [top |-> {0, 1, top_center - 1, top_center, T - 2, T - 1},
          side |-> {0, 1, side_center - 1, side_center, S - 2, S - 1}]
    [] preset = "NINE_CUBES" ->
         [top |-> {0, 1, 4, 5, 8, 9, 12, 13},
          side |-> {0, 1, 4, 5, 8, 9, 12, 13}]

\* a preset whose SIDE indices are used without the TOP_LASER_COUNT offset
PresetSetWithoutSideOffset(preset) ==
  LET p == PresetIndices(preset)
  IN  p.top \cup p.side

\* the flat laser indices a preset lights
PresetSet(preset) ==
  LET p == PresetIndices(preset)
  IN  p.top \cup { TOP_LASER_COUNT + i : i \in p.side }

\* VisualPresetEffect.apply: every laser to 0, then the preset's to base
VisualPresetApply(b, c, base_brightness) ==
  LET lit == PresetSet(c.visual_preset)
  IN  [ i \in LaserIdx |-> IF i \in lit THEN base_brightness ELSE 0 ]

-----------------------------------------------------------------------------
(* effects/pulse.py: PulseEffect.                                          *)

PulseIsActive(c) ==
  \/ c.pulse > 0
  \/ is_beat_effect_active(c.beat_sync_enabled, c.bpm, c.beat_pulse_rate)

\* 0.2 + 0.8 * (sin + 1) / 2, per mille
PulseMult1000(sin1000) == 200 + (2 * (sin1000 + 1000)) \div 5

\* _apply_beat_synced_pulse: sin(phase*2*pi - pi/2)
BeatPulseMult1000(c, n) ==
  LET ph == calculate_beat_phase(n, c.bpm, c.beat_pulse_rate)
  IN  PulseMult1000(Sin1000(4 * ph.num - ph.den, 4 * ph.den))

\* _apply_manual_pulse: time_phase = time * 2*pi * (pulse/100)*6, in turns
\* <<numerator, denominator>>
ManualTimePhase(c, n) == <<n * c.pulse * 6, 100 * TimeDen>>

\* _apply_all_pulse
AllPulseMult1000(c, n) ==
  LET tp == ManualTimePhase(c, n)
  IN  PulseMult1000(Sin1000(tp[1], tp[2]))

\* _apply_alternate_pulse, angles in tenths of a degree: pi = 1800,
\* phi = asin(0.4) = 236, start_delay = pi - phi, total_period = 2*start_delay
AlternatePulseMult1000(c, n) ==
  LET tp == ManualTimePhase(c, n)
      single_pulse_duration == 1800
      start_delay == single_pulse_duration - 236
      total_period == 2 * start_delay
      time_phase == PyFloorDiv(3600 * tp[1], tp[2])
      master_phase == PyMod(time_phase, total_period)
      shifted == master_phase - start_delay
      side_phase == IF shifted < 0 THEN shifted + total_period ELSE shifted
  IN  [ top |-> IF master_phase < single_pulse_duration
                THEN Sin1000(master_phase, 3600) ELSE 0,
        side |-> IF side_phase < single_pulse_duration
                 THEN Sin1000(side_phase, 3600) ELSE 0 ]

\* a PulseEffect.apply that looks at the pulse slider first and at the beat
\* controls only when the slider is at 0
PulseApplyManualFirst(b, c, n) ==
  IF c.pulse > 0
  THEN IF c.effect_application = "ALTERNATE"
       THEN LET m == AlternatePulseMult1000(c, n)
            IN  [ i \in LaserIdx |->
                    IF b[i] > 0
                    THEN Scale1000(b[i], IF IsTop(i) THEN m.top ELSE m.side)
                    ELSE b[i] ]
       ELSE LET m == AllPulseMult1000(c, n)
            IN  [ i \in LaserIdx |->
                    IF b[i] > 0 THEN Scale1000(b[i], m) ELSE b[i] ]
  ELSE IF is_beat_effect_active(c.beat_sync_enabled, c.bpm, c.beat_pulse_rate)
  THEN LET m == BeatPulseMult1000(c, n)
       IN  [ i \in LaserIdx |-> IF b[i] > 0 THEN Scale1000(b[i], m) ELSE b[i] ]
  ELSE b

\* PulseEffect.apply
PulseApply(b, c, n) ==
  IF is_beat_effect_active(c.beat_sync_enabled, c.bpm, c.beat_pulse_rate)
  THEN LET m == BeatPulseMult1000(c, n)
       IN  [ i \in LaserIdx |-> IF b[i] > 0 THEN Scale1000(b[i], m) ELSE b[i] ]
  ELSE IF c.pulse > 0
  THEN IF c.effect_application = "ALTERNATE"
       THEN LET m == AlternatePulseMult1000(c, n)
            IN  [ i \in LaserIdx |->
                    IF b[i] > 0
                    THEN Scale1000(b[i], IF IsTop(i) THEN m.top ELSE m.side)
                    ELSE b[i] ]
       ELSE LET m == AllPulseMult1000(c, n)
            IN  [ i \in LaserIdx |->
                    IF b[i] > 0 THEN Scale1000(b[i], m) ELSE b[i] ]
  ELSE b

-----------------------------------------------------------------------------
(* effects/strobe.py: StrobeEffect.                                        *)

StrobeIsActive(c) ==
  \/ c.strobe > 0
  \/ is_beat_effect_active(c.beat_sync_enabled, c.bpm, c.beat_strobe_rate)

\* _calculate_beat_strobe_state: on for the first half of the beat
BeatStrobeState(c, n) ==
  LET ph == calculate_beat_phase(n, c.bpm, c.beat_strobe_rate)
  IN  [ on |-> 2 * ph.num < ph.den, cycle |-> ph.cycle ]

\* _calculate_manual_strobe_state: frequency = (strobe/100)*20 > 0,
\* time*frequency = n*strobe / (5*TimeDen)
ManualStrobeState(n, strobe_intensity) ==
  LET x == n * strobe_intensity
      den == 5 * TimeDen
  IN  [ on |-> 2 * PyMod(x, den) < den, cycle |-> PyFloorDiv(x, den) ]

\* an _apply_strobe_state whose off phase leaves the lasers as they are
ApplyStrobeStateNoGate(b, c, strobe_is_on, cycle_count) ==
  IF strobe_is_on /\ c.effect_application = "ALTERNATE"
  THEN LET is_top_active == (cycle_count % 2 = 0)
       IN  [ i \in LaserIdx |->
               IF \/ (is_top_active /\ ~IsTop(i))
                  \/ (~is_top_active /\ IsTop(i))
               THEN 0 ELSE b[i] ]
  ELSE b

\* an _apply_strobe_state that zeroes the group the cycle makes active
ApplyStrobeStateSwapped(b, c, strobe_is_on, cycle_count) ==
  IF ~strobe_is_on
  THEN [ i \in LaserIdx |-> 0 ]
  ELSE IF c.effect_application = "ALTERNATE"
  THEN LET is_top_active == (cycle_count % 2 = 0)
       IN  [ i \in LaserIdx |->
               IF \/ (is_top_active /\ IsTop(i))
                  \/ (~is_top_active /\ ~IsTop(i))
               THEN 0 ELSE b[i] ]
  ELSE b

\* _apply_strobe_state
ApplyStrobeState(b, c, strobe_is_on, cycle_count) ==
  IF ~strobe_is_on
  THEN [ i \in LaserIdx |-> 0 ]
  ELSE IF c.effect_application = "ALTERNATE"
  THEN LET is_top_active == (cycle_count % 2 = 0)
       IN  [ i \in LaserIdx |->
               IF \/ (is_top_active /\ ~IsTop(i))
                  \/ (~is_top_active /\ IsTop(i))
               THEN 0 ELSE b[i] ]
  ELSE b

\* StrobeEffect.apply
StrobeApply(b, c, n) ==
  IF is_beat_effect_active(c.beat_sync_enabled, c.bpm, c.beat_strobe_rate)
  THEN LET s == BeatStrobeState(c, n)
       IN  ApplyStrobeState(b, c, s.on, s.cycle)
  ELSE IF c.strobe > 0
  THEN LET s == ManualStrobeState(n, c.strobe)
       IN  ApplyStrobeState(b, c, s.on, s.cycle)
  ELSE b

-----------------------------------------------------------------------------
(* effects/movement.py: MovementEffect.                                    *)

\* resolution of a movement position: time * (speed / 3) = n * speed / PosDen
PosDen == 3 * TimeDen

\* the keys _update_progress is called with
ProgressKeys ==
  { "top-False", "top-True", "side-False", "side-True",
    "Out from Center", "Towards Center",
    "To TL", "To TR", "To BL", "To BR", "Pinwheel" }

\* MovementEffect.reset_state: the transient state after a reset.
\* last_progress[k] is <<>> for a key that is absent and <<p>> otherwise;
\* last_direction_key is <<>> for '' and <<direction, build>> otherwise.
MovementInitState ==
  [ last_progress |-> [ k \in ProgressKeys |-> <<>> ],
    built_lasers |-> [ i \in LaserIdx |-> 0 ],
    spot_lasers |-> [ i \in LaserIdx |-> FALSE ],
    spot_time_accumulator |-> 0,
    last_direction_key |-> <<>> ]

\* MovementEffect.is_active
MovementIsActive(c) == c.scroll_direction # "NONE"

\* time * effective_rate of the tick time itself, never quantized
TimeTimesRateOfTickTime(n, c) == n * c.laser_move_speed

\* time_for_calc * effective_rate in 1/PosDen steps: the tick time, or the
\* quantized time of BeatSync.calculate_quantized_time when beat movement
\* is active
TimeTimesRate(n, c) ==
  IF /\ is_beat_effect_active(c.beat_sync_enabled, c.bpm,
                              c.beat_laser_move_speed_rate)
     /\ c.scroll_direction \notin {"NONE", "SPOT"}
  THEN LET d == EffectDuration(c.bpm, c.beat_laser_move_speed_rate)
           beat_count == PyFloorDiv(n * d[2], d[1] * TimeDen)
       IN  PyFloorDiv(beat_count * d[1] * TimeDen * c.laser_move_speed, d[2])
  ELSE n * c.laser_move_speed

\* _calculate_progress with the phase returned as it is, never folded back
calculate_progress_unfolded(period, n, c) ==
  LET x == TimeTimesRate(n, c)
      full_period ==
        IF c.loop_effect
        THEN 2 * Max((period - c.scroll_laser_count) * PosDen,
                     (period * PosDen) \div 2)
        ELSE period * PosDen
  IN  IF full_period = 0 THEN [raised |-> TRUE, p |-> 0]
      ELSE [raised |-> FALSE, p |-> PyMod(x, full_period)]

\* _calculate_progress: the progress in 1/PosDen steps, or raised when the
\* modulo divides by zero
calculate_progress(period, n, c) ==
  LET x == TimeTimesRate(n, c)
  IN  IF c.loop_effect
      THEN LET bounce_period ==
                 Max((period - c.scroll_laser_count) * PosDen,
                     (period * PosDen) \div 2)
               full_period == bounce_period * 2
           IN  IF full_period = 0
               THEN [raised |-> TRUE, p |-> 0]
               ELSE LET phase == PyMod(x, full_period)
                    IN  [ raised |-> FALSE,
                          p |-> IF phase < bounce_period
                                THEN phase ELSE full_period - phase ]
      ELSE IF period = 0
           THEN [raised |-> TRUE, p |-> 0]
           ELSE [raised |-> FALSE, p |-> PyMod(x, period * PosDen)]

\* 10^6 * x^1.2 at x = 0, 0.1, ..., 1
Pow12Table ==
  << 0, 63096, 144956, 235802, 333021, 435275, 541696, 651780, 765082,
     881245, 1000000 >>

\* 10^6 * (n100/100)^exponent for the two exponents fade_factor*2+1 takes:
\* 3 when scroll_fade = 90, else 1.2 (interpolated between tenths)
Falloff(n100, scroll_fade) ==
  IF scroll_fade = 90
  THEN n100 * n100 * n100
  ELSE LET q == n100 \div 10
           r == n100 % 10
       IN  Pow12Table[q + 1]
             + ((Pow12Table[Min(q + 2, 11)] - Pow12Table[q + 1]) * r) \div 10

\* _calculate_brightness for the distance dnum/dden (dnum >= 0, dden > 0)
calculate_brightness(dnum, dden, base_brightness, c) ==
  IF 2 * dnum < c.scroll_laser_count * dden
  THEN LET n100 == (200 * dnum) \div (c.scroll_laser_count * dden)
       IN  (base_brightness * (1000000 - Falloff(n100, c.scroll_fade)))
             \div 1000000
  ELSE 0

\* an _update_progress that takes every drop of the progress for a wrap,
\* a bouncing sweep's way back included
update_progress_ignoring_loop(m, key, progress, c) ==
  LET lp == m.last_progress[key]
      recorded == IF Len(lp) = 0 THEN 0 ELSE lp[1]
      wrapped == /\ progress < recorded
                 /\ c.scroll_build_effect
  IN  [ m EXCEPT
          !.built_lasers = IF wrapped THEN [ i \in LaserIdx |-> 0 ] ELSE @,
          !.last_progress = [ @ EXCEPT ![key] = <<progress>> ] ]

\* _update_progress: a wrap (progress below the recorded one) with build on
\* and loop off clears built_lasers; the progress is recorded
update_progress(m, key, progress, c) ==
  LET lp == m.last_progress[key]
      recorded == IF Len(lp) = 0 THEN 0 ELSE lp[1]
      wrapped == /\ progress < recorded
                 /\ c.scroll_build_effect
                 /\ ~c.loop_effect
  IN  [ m EXCEPT
          !.built_lasers = IF wrapped THEN [ i \in LaserIdx |-> 0 ] ELSE @,
          !.last_progress = [ @ EXCEPT ![key] = <<progress>> ] ]

\* progress2 = (progress - phase_offset + period) % period, in 1/PosDen
\* steps; taken only when scroll_phase > 0 and period # 0
PhaseProgress(progress, period, c) ==
  LET phase_offset == PyFloorDiv(c.scroll_phase * period * PosDen, 100)
  IN  PyMod(progress - phase_offset + period * PosDen, period * PosDen)

\* a scroll mask that is written to the laser instead of multiplied into it
apply_scroll_mask_overwrite(b, scroll_mask, built_lasers, base_brightness, c) ==
  [ index \in LaserIdx |->
      IF c.scroll_build_effect
      THEN Max(scroll_mask[index], built_lasers[index])
      ELSE scroll_mask[index] ]

\* an _apply_scroll_mask that takes a mask value of 0 for "no mask" and
\* leaves the laser as it was
apply_scroll_mask_zero_unmasked(b, scroll_mask, built_lasers, base_brightness, c) ==
  [ index \in LaserIdx |->
      LET mask_value ==
            IF c.scroll_build_effect
            THEN Max(scroll_mask[index], built_lasers[index])
            ELSE scroll_mask[index]
      IN  IF b[index] > 0 /\ mask_value > 0
          THEN (b[index] * mask_value) \div base_brightness
          ELSE b[index] ]

\* _apply_scroll_mask
apply_scroll_mask(b, scroll_mask, built_lasers, base_brightness, c) ==
  [ index \in LaserIdx |->
      IF b[index] > 0
      THEN LET mask_value ==
                 IF c.scroll_build_effect
                 THEN Max(scroll_mask[index], built_lasers[index])
                 ELSE scroll_mask[index]
           IN  (b[index] * mask_value) \div base_brightness
      ELSE b[index] ]

\* the outcome of one movement strategy: the scroll mask it computed, the
\* transient state it leaves, and "raised" when a ZeroDivisionError escapes
ZeroMask == [ i \in LaserIdx |-> 0 ]

\* the final_brightness of one laser: the wave at progress, and with
\* scroll_phase > 0 the max with the wave at progress2.  wave1 and wave2
\* are the strategy's get_wave_brightness at progress and at progress2.
FinalBrightness(wave1, wave2, i, c) ==
  IF c.scroll_phase > 0 THEN Max(wave1[i], wave2[i]) ELSE wave1[i]

\* a wave strategy that records the build trail whatever scroll_build_effect
\* is
WaveStrategyTrailAlways(wave1, wave2, covered, key, pr, period, m, c) ==
      IF pr.raised
      THEN [ status |-> "raised", mask |-> ZeroMask, m |-> m ]
      ELSE LET m1 == update_progress(m, key, pr.p, c)
           IN  IF c.scroll_phase > 0 /\ period = 0
               THEN [ status |-> "raised", mask |-> ZeroMask, m |-> m1 ]
               ELSE LET final == [ i \in LaserIdx |->
                                     IF i \in covered
                                     THEN FinalBrightness(wave1, wave2, i, c)
                                     ELSE 0 ]
                    IN  [ status |-> "ok",
                          mask |-> final,
                          m |-> [ m1 EXCEPT !.built_lasers =
                                    [ i \in LaserIdx |->
                                        IF i \in covered
                                        THEN Max(@[i], final[i])
                                        ELSE @[i] ] ] ]

\* the part the wave strategies share: progress, progress tracking, then
\* for every laser of `covered` the scroll mask entry and the build trail
WaveStrategy(wave1, wave2, covered, key, pr, period, m, c) ==
      IF pr.raised
      THEN [ status |-> "raised", mask |-> ZeroMask, m |-> m ]
      ELSE LET m1 == update_progress(m, key, pr.p, c)
           IN  IF c.scroll_phase > 0 /\ period = 0
               THEN [ status |-> "raised", mask |-> ZeroMask, m |-> m1 ]
               ELSE LET final == [ i \in LaserIdx |->
                                     IF i \in covered
                                     THEN FinalBrightness(wave1, wave2, i, c)
                                     ELSE 0 ]
                    IN  [ status |-> "ok",
                          mask |-> final,
                          m |-> IF c.scroll_build_effect
                                THEN [ m1 EXCEPT !.built_lasers =
                                         [ i \in LaserIdx |->
                                             IF i \in covered
                                             THEN Max(@[i], final[i])
                                             ELSE @[i] ] ]
                                ELSE m1 ]

\* _apply_axis_movement
apply_axis_movement(m, direction, c, n, base_brightness) ==
  LET horizontal == direction \in {"LEFT_TO_RIGHT", "RIGHT_TO_LEFT"}
      count == IF horizontal THEN TOP_LASER_COUNT ELSE SIDE_LASER_COUNT
      is_reversed == IF horizontal THEN direction = "RIGHT_TO_LEFT"
                     ELSE direction = "BOTTOM_TO_TOP"
      first == IF horizontal THEN 0 ELSE TOP_LASER_COUNT
      key == IF horizontal
             THEN (IF is_reversed THEN "top-True" ELSE "top-False")
             ELSE (IF is_reversed THEN "side-True" ELSE "side-False")
      period == count + c.scroll_laser_count
      Wave(prog, i) ==
        LET pos == IF is_reversed THEN count * PosDen - prog ELSE prog
        IN  calculate_brightness(Abs((i - first) * PosDen - pos), PosDen,
                                 base_brightness, c)
      covered == first .. (first + count - 1)
      pr == calculate_progress(period, n, c)
      wave1 == [ i \in covered |-> Wave(pr.p, i) ]
      wave2 == [ i \in covered |-> Wave(PhaseProgress(pr.p, period, c), i) ]
  IN  WaveStrategy(wave1, wave2, covered, key, pr, period, m, c)

\* _apply_center_movement
apply_center_movement(m, direction, c, n, base_brightness) ==
  LET max_dist == Max(TOP_LASER_COUNT, SIDE_LASER_COUNT) \div 2
      period == max_dist + c.scroll_laser_count
      \* 2 * distance_from_center, in whole lasers
      dfc2(i) == IF IsTop(i)
                 THEN Abs(2 * i - (TOP_LASER_COUNT - 1))
                 ELSE Abs(2 * (i - TOP_LASER_COUNT) - (SIDE_LASER_COUNT - 1))
      Wave(prog, i) ==
        LET wave_position == IF direction = "OUT_FROM_CENTER"
                             THEN prog ELSE period * PosDen - prog
        IN  calculate_brightness(Abs(dfc2(i) * PosDen - 2 * wave_position),
                                 2 * PosDen, base_brightness, c)
      pr == calculate_progress(period, n, c)
      wave1 == [ i \in LaserIdx |-> Wave(pr.p, i) ]
      wave2 == [ i \in LaserIdx |-> Wave(PhaseProgress(pr.p, period, c), i) ]
  IN  WaveStrategy(wave1, wave2, LaserIdx, ScrollDirection[direction], pr,
                   period, m, c)

\* the integer distance _apply_diagonal_movement gives laser i
DiagonalDist(direction, i) ==
  LET is_top == IsTop(i)
      top_index == i
      side_index == i - TOP_LASER_COUNT
      top_max == TOP_LASER_COUNT - 1
      side_max == SIDE_LASER_COUNT - 1
  IN  CASE direction = "TO_BR" ->
             IF is_top THEN top_index * 2 ELSE side_index * 2 + 1
        [] direction = "TO_TL" ->
             IF is_top THEN (top_max - top_index) * 2
             ELSE (side_max - side_index) * 2 + 1
        [] direction = "TO_TR" ->
             IF is_top THEN top_index * 2 + 1
             ELSE (side_max - side_index) * 2
        [] direction = "TO_BL" ->
             IF is_top THEN (top_max - top_index) * 2
             ELSE side_index * 2 + 1
        [] OTHER -> 0

\* _apply_diagonal_movement
apply_diagonal_movement(m, direction, c, n, base_brightness) ==
  LET max_dist == (Max(TOP_LASER_COUNT, SIDE_LASER_COUNT) - 1) * 2 + 1
      period == max_dist + c.scroll_laser_count
      Wave(prog, i) ==
        calculate_brightness(Abs(DiagonalDist(direction, i) * PosDen - prog),
                             2 * PosDen, base_brightness, c)
      pr == calculate_progress(period, n, c)
      wave1 == [ i \in LaserIdx |-> Wave(pr.p, i) ]
      wave2 == [ i \in LaserIdx |-> Wave(PhaseProgress(pr.p, period, c), i) ]
  IN  WaveStrategy(wave1, wave2, LaserIdx, ScrollDirection[direction], pr,
                   period, m, c)

\* the path of _apply_pinwheel_effect: laser index at path position 0..27
PinwheelPath ==
  LET tc == TOP_LASER_COUNT \div 2
      sc == SIDE_LASER_COUNT \div 2
      T == TOP_LASER_COUNT
      S == SIDE_LASER_COUNT
  IN  [ k \in 0 .. (T + S - 1) |->
          IF k < T - tc THEN tc + k
          ELSE IF k < (T - tc) + (S - sc) THEN T + sc + (k - (T - tc))
          ELSE IF k < T + (S - sc) THEN (tc - 1) - (k - ((T - tc) + (S - sc)))
          ELSE (T + sc - 1) - (k - (T + (S - sc))) ]

\* _apply_pinwheel_effect: the wave runs along the path; it records no
\* build trail
apply_pinwheel_effect(m, c, n, base_brightness) ==
  LET period == (TOP_LASER_COUNT + SIDE_LASER_COUNT) + c.scroll_laser_count
      pr == calculate_progress(period, n, c)
      Wave(prog, k) ==
        calculate_brightness(Abs(k * PosDen - prog), PosDen, base_brightness, c)
      wave1 == [ k \in DOMAIN PinwheelPath |-> Wave(pr.p, k) ]
      wave2 == [ k \in DOMAIN PinwheelPath |->
                   Wave(PhaseProgress(pr.p, period, c), k) ]
  IN  IF pr.raised
      THEN [ status |-> "raised", mask |-> ZeroMask, m |-> m ]
      ELSE LET m1 == update_progress(m, "Pinwheel", pr.p, c)
           IN  IF c.scroll_phase > 0 /\ period = 0
               THEN [ status |-> "raised", mask |-> ZeroMask, m |-> m1 ]
               ELSE [ status |-> "ok",
                      mask |-> [ i \in LaserIdx |->
                                   LET k == CHOOSE j \in DOMAIN PinwheelPath :
                                              PinwheelPath[j] = i
                                   IN  FinalBrightness(wave1, wave2, k, c) ],
                      m |-> m1 ]

\* _apply_other_movements: the strategy of the direction, if it has one
apply_other_movements(m, c, n, base_brightness) ==
  LET direction == c.scroll_direction
  IN  IF direction \in {"LEFT_TO_RIGHT", "RIGHT_TO_LEFT",
                        "TOP_TO_BOTTOM", "BOTTOM_TO_TOP"}
      THEN apply_axis_movement(m, direction, c, n, base_brightness)
      ELSE IF direction \in {"OUT_FROM_CENTER", "TOWARDS_CENTER"}
      THEN apply_center_movement(m, direction, c, n, base_brightness)
      ELSE IF direction \in {"TO_TL", "TO_TR", "TO_BL", "TO_BR"}
      THEN apply_diagonal_movement(m, direction, c, n, base_brightness)
      ELSE [ status |-> "ok", mask |-> ZeroMask, m |-> m ]

\* resolution of the spot accumulator: 1/AccDen seconds
AccDen == 1000 * TimeDen

\* an _apply_spot_effect whose refresh lights the new indices on top of the
\* mask it finds
apply_spot_effect_accumulating(b, m, c, dt, indices) ==
  LET f == 29 * c.laser_move_speed + 70
      acc == m.spot_time_accumulator + dt * 1000
  IN  IF f = 0
      THEN [ status |-> "raised", b |-> b, m |-> m ]
      ELSE LET spot_change_interval == PyFloorDiv(198 * AccDen, f)
           IN  IF acc >= spot_change_interval /\ spot_change_interval <= 0
               THEN [ status |-> "hung", b |-> b, m |-> m ]
               ELSE LET refresh == acc >= spot_change_interval
                        picked == { indices[k] :
                                      k \in 1 .. Min(c.scroll_laser_count,
                                                     Len(indices)) }
                        spot_lasers ==
                          IF refresh
                          THEN [ i \in LaserIdx |->
                                   i \in picked \/ m.spot_lasers[i] ]
                          ELSE m.spot_lasers
                    IN  [ status |-> "ok",
                          b |-> [ i \in LaserIdx |->
                                    IF spot_lasers[i] THEN b[i] ELSE 0 ],
                          m |-> [ m EXCEPT
                                    !.spot_lasers = spot_lasers,
                                    !.spot_time_accumulator =
                                      IF refresh
                                      THEN acc % spot_change_interval
                                      ELSE acc ] ]

\* _apply_spot_effect.  frequency = 0.5*(1 + 29*(speed-1)/99) = f/198 with
\* f = 29*speed + 70; dt is the wall-clock delta in 1/TimeDen seconds;
\* indices is the outcome of random.shuffle.  With a negative frequency the
\* consume loop `while acc >= interval: acc -= interval` never exits.
apply_spot_effect(b, m, c, dt, indices) ==
  LET f == 29 * c.laser_move_speed + 70
      acc == m.spot_time_accumulator + dt * 1000
  IN  IF f = 0
      THEN [ status |-> "raised", b |-> b, m |-> m ]
      ELSE LET spot_change_interval == PyFloorDiv(198 * AccDen, f)
           IN  IF acc >= spot_change_interval /\ spot_change_interval <= 0
               THEN [ status |-> "hung", b |-> b, m |-> m ]
               ELSE LET refresh == acc >= spot_change_interval
                        picked == { indices[k] :
                                      k \in 1 .. Min(c.scroll_laser_count,
                                                     Len(indices)) }
                        spot_lasers ==
                          IF refresh
                          THEN [ i \in LaserIdx |-> i \in picked ]
                          ELSE m.spot_lasers
                    IN  [ status |-> "ok",
                          b |-> [ i \in LaserIdx |->
                                    IF spot_lasers[i] THEN b[i] ELSE 0 ],
                          m |-> [ m EXCEPT
                                    !.spot_lasers = spot_lasers,
                                    !.spot_time_accumulator =
                                      IF refresh
                                      THEN acc % spot_change_interval
                                      ELSE acc ] ]

\* the end of _apply_pinwheel_effect and _apply_other_movements: the scroll
\* mask r.mask of the strategy is applied unless the strategy raised
MaskedResult(b, r, base_brightness, c) ==
  [ status |-> r.status,
    b |-> IF r.status = "ok"
          THEN apply_scroll_mask(b, r.mask, r.m.built_lasers, base_brightness, c)
          ELSE b,
    m |-> r.m ]

\* a MovementEffect.apply that resets its state only when the direction
\* changes, whatever scroll_build_effect is
MovementApplyDirectionKey(b, m, c, n, dt, indices, base_brightness) ==
  LET direction == c.scroll_direction
  IN  IF direction = "NONE"
      THEN [ status |-> "ok", b |-> b, m |-> MovementInitState ]
      ELSE LET direction_key == <<direction, c.scroll_build_effect>>
               m0 == IF \/ Len(m.last_direction_key) = 0
                        \/ m.last_direction_key[1] # direction
                     THEN [ MovementInitState EXCEPT
                              !.last_direction_key = direction_key ]
                     ELSE [ m EXCEPT !.last_direction_key = direction_key ]
           IN  IF direction = "SPOT"
               THEN apply_spot_effect(b, m0, c, dt, indices)
               ELSE MaskedResult(
                      b,
                      IF direction = "PINWHEEL"
                      THEN apply_pinwheel_effect(m0, c, n, base_brightness)
                      ELSE apply_other_movements(m0, c, n, base_brightness),
                      base_brightness, c)

\* MovementEffect.apply
MovementApply(b, m, c, n, dt, indices, base_brightness) ==
  LET direction == c.scroll_direction
  IN  IF direction = "NONE"
      THEN [ status |-> "ok", b |-> b, m |-> MovementInitState ]
      ELSE LET direction_key == <<direction, c.scroll_build_effect>>
               m0 == IF m.last_direction_key # direction_key
                     THEN [ MovementInitState EXCEPT
                              !.last_direction_key = direction_key ]
                     ELSE m
           IN  IF direction = "SPOT"
               THEN apply_spot_effect(b, m0, c, dt, indices)
               ELSE MaskedResult(
                      b,
                      IF direction = "PINWHEEL"
                      THEN apply_pinwheel_effect(m0, c, n, base_brightness)
                      ELSE apply_other_movements(m0, c, n, base_brightness),
                      base_brightness, c)

-----------------------------------------------------------------------------
(* utils/helpers.py and core/simulator.py: the tick.                       *)

\* an apply_dimmer that scales by any positive percentage
apply_dimmer_unclamped(value, dimmer_percent) ==
  IF dimmer_percent <= 0 THEN 0
  ELSE (value * dimmer_percent) \div 100

\* apply_dimmer
apply_dimmer(value, dimmer_percent) ==
  IF dimmer_percent <= 0 THEN 0
  ELSE IF dimmer_percent >= 100 THEN value
  ELSE (value * dimmer_percent) \div 100

\* LaserSimulator._apply_dimmer
ApplyDimmer(b, c) == [ i \in LaserIdx |-> apply_dimmer(b[i], c.dimmer) ]

\* the brightness array after the reset loop of update()
AllOff == [ i \in LaserIdx |-> 0 ]

\* EffectManager.apply_all_effects, the first three effects in the order
\* _setup_effects registers them: each runs only if is_active
StagePreset(b, c) == VisualPresetApply(b, c, DEFAULT_BRIGHTNESS)

StagePulse(b, c, n) == IF PulseIsActive(c) THEN PulseApply(b, c, n) ELSE b

StageStrobe(b, c, n) == IF StrobeIsActive(c) THEN StrobeApply(b, c, n) ELSE b

\* the fourth effect: Movement, skipped when is_active is false
StageMovement(b, m, c, n, dt, indices) ==
  IF MovementIsActive(c)
  THEN MovementApply(b, m, c, n, dt, indices, DEFAULT_BRIGHTNESS)
  ELSE [ status |-> "ok", b |-> b, m |-> m ]

\* the end of update() after the effects returned r: the master dimmer,
\* unless an exception escaped (or the spot loop hangs) in Movement
UpdateFinish(r, c) ==
  [ status |-> r.status,
    b |-> IF r.status = "ok" THEN ApplyDimmer(r.b, c) ELSE r.b,
    m |-> r.m ]

\* an update() that applies the master dimmer before the Movement effect
UpdateDimmerFirst(m, c, n, dt, indices) ==
  LET b1 == StagePreset(AllOff, c)
      b2 == StagePulse(b1, c, n)
      b3 == StageStrobe(b2, c, n)
  IN  StageMovement(ApplyDimmer(b3, c), m, c, n, dt, indices)

\* LaserSimulator.update(current_time = n/TimeDen) with the wall-clock
\* delta dt: reset, the four effects, then the master dimmer
Update(m, c, n, dt, indices) ==
  LET b1 == StagePreset(AllOff, c)
      b2 == StagePulse(b1, c, n)
      b3 == StageStrobe(b2, c, n)
  IN  UpdateFinish(StageMovement(b3, m, c, n, dt, indices), c)

-----------------------------------------------------------------------------
(* laser_simulator.py: the original monolithic engine.  Its stages are the *)
(* methods of one class; the stages whose code the package took over       *)
(* unchanged are modelled by the package's definitions.                    *)

\* the monolithic LaserSimulator after __init__: its controls, its lasers'
\* brightness, its scroll state (last_progress, built_lasers, spot_lasers,
\* spot_time_accumulator, _last_direction_key: <<>> while the attribute is
\* not set) and last_time
MonolithInit ==
  [ controls |-> ControlsState,
    brightness |-> AllOff,
    movement |-> MovementInitState,
    last_time |-> 0 ]

\* _handle_osc_control of the monolith for a str or number value: the
\* conversions by label, NONE for an unknown direction label, the value
\* kept when ValueError is caught
MonolithHandleOscControl(c, control_name, value) ==
  HandleOscControl(c, control_name, value).controls

\* _apply_dimmer of the monolith: int(brightness * dimmer / 100), no bounds
monolith_apply_dimmer(b, c) ==
  [ i \in LaserIdx |-> PyInt(b[i] * c.dimmer, 100) ]

\* _apply_pulse of the monolith: the multipliers of the beat, alternate and
\* all pulses, multiplied into every laser
monolith_apply_pulse(b, c, n) ==
  IF /\ c.beat_sync_enabled /\ c.bpm > 0 /\ c.beat_pulse_rate # "OFF"
  THEN IF get_beat_rate_multiplier(c.beat_pulse_rate)[1] = 0
       THEN b
       ELSE [ i \in LaserIdx |-> PyInt(b[i] * BeatPulseMult1000(c, n), 1000) ]
  ELSE IF c.pulse > 0
  THEN IF c.effect_application = "ALTERNATE"
       THEN [ i \in LaserIdx |->
                PyInt(b[i] * (IF IsTop(i)
                              THEN AlternatePulseMult1000(c, n).top
                              ELSE AlternatePulseMult1000(c, n).side), 1000) ]
       ELSE [ i \in LaserIdx |-> PyInt(b[i] * AllPulseMult1000(c, n), 1000) ]
  ELSE b

\* _apply_strobe of the monolith: the beat or manual square wave, then the
\* gate and the alternation
monolith_apply_strobe(b, c, n) ==
  IF /\ c.beat_sync_enabled /\ c.bpm > 0 /\ c.beat_strobe_rate # "OFF"
  THEN IF get_beat_rate_multiplier(c.beat_strobe_rate)[1] = 0
       THEN b
       ELSE ApplyStrobeState(b, c, BeatStrobeState(c, n).on,
                             BeatStrobeState(c, n).cycle)
  ELSE IF c.strobe > 0
  THEN ApplyStrobeState(b, c, ManualStrobeState(n, c.strobe).on,
                        ManualStrobeState(n, c.strobe).cycle)
  ELSE b

\* the PINWHEEL branch of _apply_scroll after the waves: with the build
\* effect the scroll mask is recorded in built_lasers
monolith_pinwheel_build(r, c) ==
  IF r.status = "ok" /\ c.scroll_build_effect
  THEN [ r EXCEPT !.m.built_lasers =
           [ i \in LaserIdx |-> Max(@[i], r.mask[i]) ] ]
  ELSE r

\* the end of _apply_scroll: every laser is multiplied by its mask value
monolith_apply_scroll_mask(b, r, base_brightness, c) ==
  [ status |-> r.status,
    b |-> IF r.status = "ok"
          THEN [ index \in LaserIdx |->
                   PyInt(b[index] *
                           (IF c.scroll_build_effect
                            THEN Max(r.mask[index], r.m.built_lasers[index])
                            ELSE r.mask[index]),
                         base_brightness) ]
          ELSE b,
    m |-> r.m ]

\* _apply_scroll of the monolith: the reset on a change of the direction
\* key, then the spot effect, the pinwheel or the other movements
monolith_apply_scroll(b, m, c, n, delta_time, indices, base_brightness) ==
  LET direction == c.scroll_direction
      direction_key == <<direction, c.scroll_build_effect>>
      m0 == IF m.last_direction_key # direction_key
            THEN [ MovementInitState EXCEPT
                     !.last_direction_key = direction_key ]
            ELSE m
  IN  IF direction = "SPOT"
      THEN apply_spot_effect(b, m0, c, delta_time, indices)
      ELSE monolith_apply_scroll_mask(
             b,
             IF direction = "PINWHEEL"
             THEN monolith_pinwheel_build(
                    apply_pinwheel_effect(m0, c, n, base_brightness), c)
             ELSE apply_other_movements(m0, c, n, base_brightness),
             base_brightness, c)

\* the scroll step of the monolith's update(): _apply_scroll, or with the
\* direction NONE the clearing of last_progress, built_lasers, spot_lasers
monolith_scroll_step(b, m, c, n, delta_time, indices) ==
  IF c.scroll_direction # "NONE"
  THEN monolith_apply_scroll(b, m, c, n, delta_time, indices,
                             DEFAULT_BRIGHTNESS)
  ELSE [ status |-> "ok", b |-> b,
         m |-> [ m EXCEPT
                   !.last_progress = MovementInitState.last_progress,
                   !.built_lasers = MovementInitState.built_lasers,
                   !.spot_lasers = MovementInitState.spot_lasers ] ]

\* the monolith after update(): r is the outcome of its scroll step
MonolithFinish(mo, r, n) ==
  [ status |-> r.status,
    mono |-> [ mo EXCEPT !.brightness = r.b, !.movement = r.m,
                         !.last_time = n ] ]

\* update(current_time = n/TimeDen) of the monolith: delta_time from the
\* previous timestamp, then preset, dimmer, pulse, strobe and scroll
MonolithUpdate(mo, n, indices) ==
  MonolithFinish(
    mo,
    monolith_scroll_step(
      monolith_apply_strobe(
        monolith_apply_pulse(
          monolith_apply_dimmer(
            VisualPresetApply(AllOff, mo.controls, DEFAULT_BRIGHTNESS),
            mo.controls),
          mo.controls, n),
        mo.controls, n),
      mo.movement, mo.controls, n,
      IF mo.last_time > 0 THEN n - mo.last_time ELSE 0,
      indices),
    n)

-----------------------------------------------------------------------------
(* models/config.py, models/laser.py, controllers/dmx.py and the DMX part  *)
(* of core/simulator.py: laser addresses, the channel buffer, the packet.  *)
(* dmx is the record of the laser addresses and the DMX controller:        *)
(* constructed (LaserSimulator.__init__ returned), enabled and             *)
(* start_address (the DMXConfig), address (Laser.dmx_address by flat       *)
(* index), dmx_data (DMXController.dmx_data by channel 1..512, <<>> when   *)
(* there is no controller), connected, packet (the last packet written to  *)
(* the serial port, <<>> when none was), write (what the most recent       *)
(* send_dmx did with the port: "none", "sent" or "failed").                *)

\* the slots of DMXController.dmx_data
DmxChannels == 512

\* the default DMXConfig()
DMXConfig == [ enabled |-> FALSE, start_address |-> 1 ]

\* DMXConfig.__post_init__ accepts the start address
DMXConfigValid(config) ==
  1 <= config.start_address /\ config.start_address <= 512

\* Laser.id of the flat array: f"top-{i}" then f"side-{i}"
LaserIds ==
  [ i \in LaserIdx |->
      << "top-0", "top-1", "top-2", "top-3", "top-4",
     "top-5", "top-6", "top-7", "top-8", "top-9",
     "top-10", "top-11", "top-12", "top-13", "side-0",
     "side-1", "side-2", "side-3", "side-4", "side-5",
     "side-6", "side-7", "side-8", "side-9", "side-10",
     "side-11", "side-12", "side-13" >>[i + 1] ]

\* Laser.__post_init__ accepts the address
LaserAddressValid(dmx_address) == 1 <= dmx_address /\ dmx_address <= 512

\* _initialize_lasers: laser i gets start_address + i; a Laser whose
\* address __post_init__ rejects raises ValueError out of the constructor
initialize_lasers(start_address) ==
  [ raised |-> \E i \in LaserIdx : ~LaserAddressValid(start_address + i),
    address |-> [ i \in LaserIdx |-> start_address + i ] ]

\* LaserSimulator.__init__(dmx_config = config); connects is the outcome of
\* DMXController.connect() on this machine
LaserSimulatorInit(config, connects) ==
  LET r == initialize_lasers(config.start_address)
      has_controller == ~r.raised /\ config.enabled
  IN  [ constructed |-> ~r.raised,
        enabled |-> config.enabled,
        start_address |-> config.start_address,
        address |-> r.address,
        dmx_data |-> IF has_controller
                     THEN [ ch \in 1 .. DmxChannels |-> 0 ] ELSE <<>>,
        connected |-> has_controller /\ connects,
        packet |-> <<>>,
        write |-> "none" ]

\* DMXController.update_lasers: update_laser for every laser in array
\* order, each writing its clamped brightness at its address; of two lasers
\* with one address the later one's write stays
update_lasers(d, b) ==
  IF ~d.enabled
  THEN d
  ELSE [ d EXCEPT !.dmx_data =
           [ ch \in 1 .. DmxChannels |->
               LET at == { i \in LaserIdx : d.address[i] = ch }
               IN  IF at = {}
                   THEN @[ch]
                   ELSE LET i == CHOOSE x \in at : \A y \in at : y <= x
                        IN  Max(0, Min(255, b[i])) ] ]

\* DMXController.update_laser for a Laser with the given dmx_address and
\* brightness: [dmx, ret]
update_laser(d, dmx_address, laser_brightness) ==
  IF ~d.enabled
  THEN [ dmx |-> d, ret |-> FALSE ]
  ELSE IF 1 <= dmx_address /\ dmx_address <= 512
       THEN [ dmx |-> [ d EXCEPT !.dmx_data[dmx_address] =
                          Max(0, Min(255, laser_brightness)) ],
              ret |-> TRUE ]
       ELSE [ dmx |-> d, ret |-> FALSE ]

\* DMXController.set_channel_value: [dmx, ret]
set_channel_value(d, channel, value) ==
  IF ~d.enabled
  THEN [ dmx |-> d, ret |-> FALSE ]
  ELSE IF /\ 1 <= channel /\ channel <= 512
          /\ 0 <= value /\ value <= 255
       THEN [ dmx |-> [ d EXCEPT !.dmx_data[channel] = value ], ret |-> TRUE ]
       ELSE [ dmx |-> d, ret |-> FALSE ]

\* _build_dmx_packet: header 0x7E, the buffer, footer 0xE7
build_dmx_packet(dmx_data) == <<126>> \o dmx_data \o <<231>>

\* send_dmx without the handler's `self.connected = False`
send_dmx_staying_connected(d, write_ok) ==
  IF ~d.connected \/ ~d.enabled
  THEN [ d EXCEPT !.write = "none" ]
  ELSE IF write_ok
       THEN [ d EXCEPT !.packet = build_dmx_packet(d.dmx_data),
                       !.write = "sent" ]
       ELSE [ d EXCEPT !.write = "failed" ]

\* send_dmx: the packet is built and written when the port is connected;
\* write_ok is whether serial_port.write returned, an exception out of it
\* is caught and marks the controller disconnected
send_dmx(d, write_ok) ==
  IF ~d.connected \/ ~d.enabled
  THEN [ d EXCEPT !.write = "none" ]
  ELSE IF write_ok
       THEN [ d EXCEPT !.packet = build_dmx_packet(d.dmx_data),
                       !.write = "sent" ]
       ELSE [ d EXCEPT !.connected = FALSE, !.write = "failed" ]

\* _update_controllers with the brightness array b
update_controllers(d, b, write_ok) ==
  IF d.enabled THEN send_dmx(update_lasers(d, b), write_ok) ELSE d

\* set_dmx_address: [dmx, ret]
set_dmx_address_unchecked(d, laser_id, address) ==
  IF \E i \in LaserIdx : LaserIds[i] = laser_id
  THEN [ dmx |-> [ d EXCEPT !.address =
                     [ i \in LaserIdx |->
                         IF LaserIds[i] = laser_id THEN address ELSE @[i] ] ],
         ret |-> TRUE ]
  ELSE [ dmx |-> d, ret |-> FALSE ]

set_dmx_address(d, laser_id, address) ==
  IF /\ \E i \in LaserIdx : LaserIds[i] = laser_id
     /\ 1 <= address /\ address <= 512
  THEN [ dmx |-> [ d EXCEPT !.address =
                     [ i \in LaserIdx |->
                         IF LaserIds[i] = laser_id THEN address ELSE @[i] ] ],
         ret |-> TRUE ]
  ELSE [ dmx |-> d, ret |-> FALSE ]

-----------------------------------------------------------------------------
(* web_server.py: the module state of the web server.                      *)

\* socket clients of the web server
NumClients == 2

Clients == 1 .. NumClients

\* the module after import: thread = None, no simulator_loop running, no
\* client in a handler.  started is whether the global thread is set,
\* loops the number of simulator_loop tasks started, pc each client's
\* position
WebInit ==
  [ started |-> FALSE, loops |-> 0,
    pc |-> [ cl \in Clients |-> "disconnected" ] ]

-----------------------------------------------------------------------------
(* The state after construction, shared by the specifications.             *)

\* the state after LaserSimulator.__init__.  last is the history of the most
\* recent control operation (its kind, the control name and value passed to
\* _handle_osc_control, what set_control returned, whether an exception
\* escaped, the controls before it); tick is the position of update(): its
\* stage, its outcome, the clock index of its timestamp and the controls it
\* started with; dmx is the laser addresses and the DMX controller; hist is
\* the history of the most recent tick of the movement specification: the
\* Movement state it started with and the delta it took from the Timer;
\* mono is the original monolithic engine fed the same calls
Init ==
  /\ controls = ControlsState
  /\ brightness = AllOff
  /\ movement = MovementInitState
  /\ last = [ op |-> "init", name |-> "", value |-> 0, ret |-> TRUE,
              raised |-> FALSE, pre |-> ControlsState ]
  /\ tick = [ pc |-> "idle", status |-> "none", k |-> -1,
              entry |-> ControlsState ]
  /\ hist = [ pre |-> MovementInitState, dt |-> 0 ]
  /\ mono = MonolithInit
  /\ web = WebInit
  /\ nOps = 0
  /\ dmx = LaserSimulatorInit(DMXConfig, FALSE)

\* tick timestamps, wall-clock deltas (1/TimeDen s) and shuffle outcomes
TickTime(k) == 14 * k

DeltaTimes == { 0, 4 }

Shuffle(seed) == [ k \in 1 .. TotalLasers |-> (5 * seed + 3 * k) % TotalLasers ]

-----------------------------------------------------------------------------
(* The engine: set_control calls and ticks, one after the other.           *)

\* the set_control calls of the engine specification: <<name, value>>
EngineInputs ==
  { <<"dimmer", 50>>, <<"dimmer", 150>>, <<"strobe", 12>>, <<"pulse", 50>>,
    <<"effect_application", "Alternate">>, <<"visual_preset", "Bracket">>,
    <<"scroll_direction", "L to R">>, <<"scroll_direction", "To TL">>,
    <<"scroll_direction", "Spot">>, <<"scroll_direction", "None">>,
    <<"scroll_fade", 20>>, <<"scroll_laser_count", 3>>,
    <<"scroll_laser_count", -14>>,
    <<"scroll_phase", 35>>, <<"loop_effect", TRUE>>,
    <<"scroll_build_effect", TRUE>>, <<"beat_sync_enabled", TRUE>> }

\* a call of set_control(name, value)
SetControl ==
  /\ nOps < MaxChanges
  /\ tick.status # "hung"
  /\ \E in \in EngineInputs :
       controls' = set_control(controls, in[1], in[2]).controls
  /\ nOps' = nOps + 1
  /\ UNCHANGED <<brightness, movement, tick, last, dmx, hist, mono, web>>

\* the state a pass of update() at clock index k leaves, r its outcome
TickResult(r, k, write_ok) ==
  /\ brightness' = r.b
  /\ movement' = r.m
  /\ tick' = [ pc |-> "idle", status |-> r.status, k |-> k,
               entry |-> controls ]
  /\ dmx' = IF r.status = "ok" THEN update_controllers(dmx, r.b, write_ok)
             ELSE dmx

\* a call of update(current_time): the whole pipeline pass
Tick ==
  /\ dmx.constructed
  /\ tick.status # "hung"
  /\ \E k \in (tick.k + 1) .. MaxTime :
       \E dt \in (IF controls.scroll_direction = "SPOT" THEN DeltaTimes ELSE {0}) :
         \E seed \in (IF controls.scroll_direction = "SPOT"
                      THEN 0 .. (NumShuffles - 1) ELSE {0}) :
           \E write_ok \in (IF dmx.connected THEN BOOLEAN ELSE {TRUE}) :
             TickResult(Update(movement, controls, TickTime(k), dt,
                               Shuffle(seed)), k, write_ok)
  /\ UNCHANGED <<controls, last, nOps, hist, mono, web>>

Next == SetControl \/ Tick

Spec == Init /\ [][Next]_vars

-----------------------------------------------------------------------------
(* The Movement effect: the engine under the controls Movement reads, with *)
(* the history of each tick.                                               *)

\* the set_control calls of the movement specification: <<name, value>>
MoveInputs ==
  { <<"scroll_direction", "L to R">>, <<"scroll_direction", "Out from Center">>,
    <<"scroll_direction", "To BR">>, <<"scroll_direction", "Pinwheel">>,
    <<"scroll_direction", "Spot">>, <<"scroll_direction", "None">>,
    <<"scroll_build_effect", TRUE>>, <<"scroll_build_effect", FALSE>>,
    <<"loop_effect", TRUE>>, <<"scroll_laser_count", 3>>,
    <<"scroll_laser_count", 30>>, <<"scroll_laser_count", -14>> }

\* a call of set_control(name, value)
MoveSetControl ==
  /\ nOps < MaxMoveChanges
  /\ tick.status # "hung"
  /\ \E in \in MoveInputs :
       controls' = set_control(controls, in[1], in[2]).controls
  /\ nOps' = nOps + 1
  /\ UNCHANGED <<brightness, movement, tick, last, dmx, hist, mono, web>>

\* a call of update(current_time), its history recorded
MoveTick ==
  /\ dmx.constructed
  /\ tick.status # "hung"
  /\ \E k \in (tick.k + 1) .. MaxTime :
       \E dt \in (IF controls.scroll_direction = "SPOT" THEN DeltaTimes ELSE {0}) :
         \E seed \in (IF controls.scroll_direction = "SPOT"
                      THEN 0 .. (NumShuffles - 1) ELSE {0}) :
           /\ \E write_ok \in (IF dmx.connected THEN BOOLEAN ELSE {TRUE}) :
                TickResult(Update(movement, controls, TickTime(k), dt,
                                  Shuffle(seed)), k, write_ok)
           /\ hist' = [ pre |-> movement, dt |-> dt ]
  /\ UNCHANGED <<controls, last, nOps, mono, web>>

NextMove == MoveSetControl \/ MoveTick

SpecMove == Init /\ [][NextMove]_vars

-----------------------------------------------------------------------------
(* The DMX output: engines constructed with a DMXConfig, set_control and   *)
(* set_dmx_address calls, and ticks.                                       *)

\* the start_address values a DMXConfig is built with
DmxStartAddresses == { 0, 1, 100, 485, 486, 512, 513 }

\* the state after LaserSimulator(dmx_config = DMXConfig(enabled,
\* start_address)) for the configurations DMXConfig accepts; connects is
\* whether the serial port opened
InitDmx ==
  /\ controls = ControlsState
  /\ brightness = AllOff
  /\ movement = MovementInitState
  /\ last = [ op |-> "init", name |-> "", value |-> 0, ret |-> TRUE,
              raised |-> FALSE, pre |-> ControlsState ]
  /\ tick = [ pc |-> "idle", status |-> "none", k |-> -1,
              entry |-> ControlsState ]
  /\ hist = [ pre |-> MovementInitState, dt |-> 0 ]
  /\ mono = MonolithInit
  /\ web = WebInit
  /\ nOps = 0
  /\ \E start_address \in DmxStartAddresses :
       \E enabled \in BOOLEAN : \E connects \in BOOLEAN :
         LET config == [ enabled |-> enabled, start_address |-> start_address ]
         IN  /\ DMXConfigValid(config)
             /\ dmx = LaserSimulatorInit(config, connects)

\* the set_control calls of the DMX specification: <<name, value>>
DmxInputs ==
  { <<"dimmer", 0>>, <<"dimmer", 50>>, <<"visual_preset", "Bracket">> }

\* the set_dmx_address calls: <<laser_id, address>>
DmxAddressInputs ==
  { <<"top-0", 100>>, <<"top-0", 2>>, <<"side-13", 512>>, <<"top-1", 0>>,
    <<"top-1", 513>>, <<"laser-99", 5>> }

\* a call of set_control(name, value)
DmxSetControl ==
  /\ nOps < MaxDmxOps
  /\ dmx.constructed
  /\ \E in \in DmxInputs :
       controls' = set_control(controls, in[1], in[2]).controls
  /\ nOps' = nOps + 1
  /\ UNCHANGED <<brightness, movement, tick, last, dmx, hist, mono, web>>

\* a call of set_dmx_address(laser_id, address)
DmxSetAddress ==
  /\ nOps < MaxDmxOps
  /\ dmx.constructed
  /\ \E in \in DmxAddressInputs :
       LET r == set_dmx_address(dmx, in[1], in[2])
       IN  /\ dmx' = r.dmx
           /\ last' = [ op |-> "set_dmx_address", name |-> in[1],
                        value |-> in[2], ret |-> r.ret, raised |-> FALSE,
                        pre |-> controls ]
  /\ nOps' = nOps + 1
  /\ UNCHANGED <<controls, brightness, movement, tick, hist, mono, web>>

NextDmx == DmxSetControl \/ DmxSetAddress \/ Tick

SpecDmx == InitDmx /\ [][NextDmx]_vars

-----------------------------------------------------------------------------
(* The DMX adapter: channel writes on the controller of an engine built    *)
(* with DMX output enabled.                                                *)

\* channel writes in one run of the adapter specification
MaxChannelOps == 3

\* the addresses and channels written to
ChannelInputs == { 0, 1, 2, 512, 513 }

\* the values written: Laser.brightness is a plain int field, and
\* set_channel_value takes any int
ValueInputs == { -5, 0, 128, 255, 300 }

\* the state after LaserSimulator(dmx_config = DMXConfig(enabled = True))
InitChannel ==
  /\ controls = ControlsState
  /\ brightness = AllOff
  /\ movement = MovementInitState
  /\ last = [ op |-> "init", name |-> "", value |-> 0, ret |-> TRUE,
              raised |-> FALSE, pre |-> ControlsState ]
  /\ tick = [ pc |-> "idle", status |-> "none", k |-> -1,
              entry |-> ControlsState ]
  /\ hist = [ pre |-> MovementInitState, dt |-> 0 ]
  /\ mono = MonolithInit
  /\ web = WebInit
  /\ nOps = 0
  /\ \E connects \in BOOLEAN :
       dmx = LaserSimulatorInit([ DMXConfig EXCEPT !.enabled = TRUE ], connects)

\* the state a channel write leaves: r its outcome, last its history
ChannelResult(r, op, address, value) ==
  /\ dmx' = r.dmx
  /\ last' = [ op |-> op, name |-> address, value |-> value, ret |-> r.ret,
               raised |-> FALSE, pre |-> controls ]

\* dmx_controller.update_laser(laser)
ChannelUpdateLaser ==
  /\ nOps < MaxChannelOps
  /\ \E address \in ChannelInputs : \E value \in ValueInputs :
       ChannelResult(update_laser(dmx, address, value), "update_laser",
                     address, value)
  /\ nOps' = nOps + 1
  /\ UNCHANGED <<controls, brightness, movement, tick, hist, mono, web>>

\* dmx_controller.set_channel_value(channel, value)
ChannelSetValue ==
  /\ nOps < MaxChannelOps
  /\ \E channel \in ChannelInputs : \E value \in ValueInputs :
       ChannelResult(set_channel_value(dmx, channel, value),
                     "set_channel_value", channel, value)
  /\ nOps' = nOps + 1
  /\ UNCHANGED <<controls, brightness, movement, tick, hist, mono, web>>

NextChannel == ChannelUpdateLaser \/ ChannelSetValue

SpecChannel == InitChannel /\ [][NextChannel]_vars

-----------------------------------------------------------------------------
(* The DMX output under transport failures: an engine built with DMX       *)
(* output enabled, whose port opens or not and whose writes succeed or     *)
(* fail, under set_control calls and ticks.                                *)

\* the state after LaserSimulator(dmx_config = DMXConfig(enabled = True));
\* connects is whether the serial port opened
InitOutput == InitChannel

\* the set_control calls of the output specification: <<name, value>>
OutputInputs ==
  { <<"dimmer", 50>>, <<"visual_preset", "Bracket">>, <<"pulse", 50>> }

\* a call of set_control(name, value)
OutputSetControl ==
  /\ nOps < MaxDmxOps
  /\ \E in \in OutputInputs :
       controls' = set_control(controls, in[1], in[2]).controls
  /\ nOps' = nOps + 1
  /\ UNCHANGED <<brightness, movement, tick, last, dmx, hist, mono, web>>

NextOutput == OutputSetControl \/ Tick

SpecOutput == InitOutput /\ [][NextOutput]_vars

-----------------------------------------------------------------------------
(* The laser addresses: the default engine under set_dmx_address, reset,   *)
(* set_control calls and ticks.                                            *)

\* the set_control calls of the address specification: <<name, value>>
AddressInputs ==
  { <<"dimmer", 50>>, <<"scroll_direction", "L to R">>,
    <<"scroll_build_effect", TRUE>> }

\* a call of set_control(name, value)
AddressSetControl ==
  /\ nOps < MaxDmxOps
  /\ \E in \in AddressInputs :
       /\ controls' = set_control(controls, in[1], in[2]).controls
       /\ last' = [ op |-> "set_control", name |-> in[1], value |-> in[2],
                    ret |-> TRUE, raised |-> FALSE, pre |-> controls ]
  /\ nOps' = nOps + 1
  /\ UNCHANGED <<brightness, movement, tick, dmx, hist, mono, web>>

\* a call of reset(): new ControlsState, Timer.reset(), every brightness 0,
\* reset_state() of the effects that have one (Movement); the lasers keep
\* their dmx_address and the DMX controller is not touched
Reset ==
  /\ nOps < MaxDmxOps
  /\ controls' = ControlsState
  /\ tick' = [ pc |-> "idle", status |-> "none", k |-> -1,
               entry |-> ControlsState ]
  /\ brightness' = AllOff
  /\ movement' = MovementInitState
  /\ last' = [ op |-> "reset", name |-> "", value |-> 0, ret |-> TRUE,
               raised |-> FALSE, pre |-> controls ]
  /\ nOps' = nOps + 1
  /\ UNCHANGED <<dmx, hist, mono, web>>

NextAddress == AddressSetControl \/ DmxSetAddress \/ Reset \/ Tick

SpecAddress == Init /\ [][NextAddress]_vars

-----------------------------------------------------------------------------
(* The movement progress as a function of the tick time: the strategies'   *)
(* call of _calculate_progress under the speed, laser count and loop       *)
(* controls.                                                                *)

\* the latest tick time (1/TimeDen s) progress is computed for
LoopMaxTime == 60

\* len(path) of the line and whole-array movements
LoopPathLengths == { TOP_LASER_COUNT, TOP_LASER_COUNT + SIDE_LASER_COUNT }

\* the control values set before the progress is computed: <<name, value>>
LoopInputs ==
  { <<"loop_effect", TRUE>>, <<"loop_effect", FALSE>>,
    <<"laser_move_speed", 36>>, <<"laser_move_speed", 72>>,
    <<"scroll_laser_count", 3>>, <<"scroll_laser_count", 30>> }

\* a call of set_control(name, value)
LoopSetControl ==
  /\ nOps < MaxMoveChanges
  /\ \E in \in LoopInputs :
       controls' = set_control(controls, in[1], in[2]).controls
  /\ nOps' = nOps + 1
  /\ UNCHANGED <<brightness, movement, tick, last, dmx, hist, mono, web>>

\* a strategy computes period = len(path) + scroll_laser_count and calls
\* _calculate_progress(period, current_time, controls); last records the
\* period, the time and the progress returned
LoopProgress ==
  /\ nOps < MaxMoveChanges
  /\ \E len_path \in LoopPathLengths, n \in 0 .. LoopMaxTime :
       LET period == len_path + controls.scroll_laser_count
           r == calculate_progress(period, n, controls)
       IN  last' = [ op |-> "calculate_progress", name |-> period,
                     value |-> n, ret |-> r.p, raised |-> r.raised,
                     pre |-> controls ]
  /\ nOps' = nOps + 1
  /\ UNCHANGED <<controls, brightness, movement, tick, dmx, hist, mono, web>>

NextLoop == LoopSetControl \/ LoopProgress

SpecLoop == Init /\ [][NextLoop]_vars

-----------------------------------------------------------------------------
(* The pulse: ticks under the manual and the beat-synced pulse controls.   *)

\* the set_control calls of the pulse specification: <<name, value>>
PulseInputs ==
  { <<"beat_sync_enabled", TRUE>>, <<"bpm", 120>>, <<"beat_pulse_rate", "1">>,
    <<"beat_pulse_rate", "1/2">>, <<"pulse", 50>>,
    <<"visual_preset", "Bracket">> }

\* a call of set_control(name, value)
PulseSetControl ==
  /\ nOps < MaxMoveChanges
  /\ \E in \in PulseInputs :
       controls' = set_control(controls, in[1], in[2]).controls
  /\ nOps' = nOps + 1
  /\ UNCHANGED <<brightness, movement, tick, last, dmx, hist, mono, web>>

NextPulse == PulseSetControl \/ Tick

SpecPulse == Init /\ [][NextPulse]_vars

-----------------------------------------------------------------------------
(* Beat mode and manual mode: ticks under the pulse and strobe sliders and *)
(* the beat rates of both effects.                                         *)

\* the set_control calls of the precedence specification: <<name, value>>
PrecedenceInputs ==
  { <<"beat_sync_enabled", TRUE>>, <<"beat_pulse_rate", "1">>,
    <<"beat_strobe_rate", "1/2">>, <<"pulse", 50>>, <<"strobe", 12>>,
    <<"effect_application", "Alternate">>, <<"visual_preset", "Bracket">> }

\* a call of set_control(name, value)
PrecedenceSetControl ==
  /\ nOps < MaxMoveChanges
  /\ \E in \in PrecedenceInputs :
       controls' = set_control(controls, in[1], in[2]).controls
  /\ nOps' = nOps + 1
  /\ UNCHANGED <<brightness, movement, tick, last, dmx, hist, mono, web>>

NextPrecedence == PrecedenceSetControl \/ Tick

SpecPrecedence == Init /\ [][NextPrecedence]_vars

-----------------------------------------------------------------------------
(* The web server: each socket event runs its handler in a task of its     *)
(* own, and nothing orders the handlers of two clients.  handle_connect    *)
(* reads the global thread and then assigns it: two steps.                  *)

\* name_map.get(js_name, js_name) of handle_control_change
WebPythonName(js_name) ==
  CASE js_name = "visualPreset" -> "visual_preset"
    [] js_name = "scrollDirection" -> "scroll_direction"
    [] js_name = "laserMoveSpeed" -> "laser_move_speed"
    [] OTHER -> js_name

\* the control_change events of the frontend: <<control, value>>
WebInputs ==
  { <<"dimmer", 50>>, <<"visualPreset", "Bracket">>,
    <<"scrollDirection", "L to R">>, <<"laserMoveSpeed", 72>> }

\* handle_connect up to its test: `if thread is None`
WebConnectRead(cl) ==
  /\ web.pc[cl] = "disconnected"
  /\ web' = [ web EXCEPT !.pc[cl] = IF web.started THEN "connected"
                                    ELSE "starting" ]
  /\ UNCHANGED <<controls, brightness, movement, last, tick, nOps, dmx, hist,
                 mono>>

\* handle_connect after the test found None:
\* thread = socketio.start_background_task(target = simulator_loop)
WebConnectStart(cl) ==
  /\ web.pc[cl] = "starting"
  /\ web' = [ web EXCEPT !.started = TRUE, !.loops = @ + 1,
                         !.pc[cl] = "connected" ]
  /\ UNCHANGED <<controls, brightness, movement, last, tick, nOps, dmx, hist,
                 mono>>

\* handle_disconnect: the loop and the global thread stay as they are
WebDisconnect(cl) ==
  /\ web.pc[cl] = "connected"
  /\ web' = [ web EXCEPT !.pc[cl] = "disconnected" ]
  /\ UNCHANGED <<controls, brightness, movement, last, tick, nOps, dmx, hist,
                 mono>>

\* handle_control_change(data)
WebControlChange ==
  /\ nOps < MaxOps
  /\ \E cl \in Clients, in \in WebInputs :
       /\ web.pc[cl] = "connected"
       /\ controls' = HandleOscControl(controls, WebPythonName(in[1]),
                                       in[2]).controls
  /\ nOps' = nOps + 1
  /\ UNCHANGED <<brightness, movement, tick, last, dmx, hist, mono, web>>

\* one pass of a running simulator_loop: simulator.update()
WebLoopUpdate ==
  /\ web.loops >= 1
  /\ Tick

NextWeb ==
  \/ \E cl \in Clients :
       WebConnectRead(cl) \/ WebConnectStart(cl) \/ WebDisconnect(cl)
  \/ WebControlChange
  \/ WebLoopUpdate

SpecWeb == Init /\ [][NextWeb]_vars

-----------------------------------------------------------------------------
(* Beat-synced movement: ticks under the beat controls, the corner         *)
(* directions among the movements.                                         *)

\* the set_control calls of the beat specification: <<name, value>>
BeatInputs ==
  { <<"beat_sync_enabled", TRUE>>, <<"beat_laser_move_speed_rate", "1">>,
    <<"beat_laser_move_speed_rate", "1/2">>, <<"bpm", 120>>,
    <<"scroll_direction", "L to R">>, <<"scroll_direction", "To TL">>,
    <<"scroll_direction", "To TR">>, <<"scroll_direction", "To BL">>,
    <<"scroll_direction", "To BR">>,
    <<"scroll_direction", "Spot">>, <<"scroll_build_effect", TRUE>> }

\* a call of set_control(name, value)
BeatSetControl ==
  /\ nOps < MaxMoveChanges
  /\ \E in \in BeatInputs :
       controls' = set_control(controls, in[1], in[2]).controls
  /\ nOps' = nOps + 1
  /\ UNCHANGED <<brightness, movement, tick, last, dmx, hist, mono, web>>

NextBeat == BeatSetControl \/ MoveTick

SpecBeat == Init /\ [][NextBeat]_vars

-----------------------------------------------------------------------------
(* The movement directions: every label of ScrollDirection selected, with  *)
(* the build, loop and speed controls.                                      *)

\* the set_control calls of the direction specification: <<name, value>>
DirectionInputs ==
  { <<"scroll_direction", label>> : label \in Labels(ScrollDirection) }
    \cup { <<"scroll_build_effect", TRUE>>, <<"loop_effect", TRUE>>,
           <<"laser_move_speed", -3>> }

\* a call of set_control(name, value)
DirectionSetControl ==
  /\ nOps < MaxOps
  /\ \E in \in DirectionInputs :
       controls' = set_control(controls, in[1], in[2]).controls
  /\ nOps' = nOps + 1
  /\ UNCHANGED <<brightness, movement, tick, last, dmx, hist, mono, web>>

NextDirection == DirectionSetControl \/ MoveTick

SpecDirection == Init /\ [][NextDirection]_vars

-----------------------------------------------------------------------------
(* The axis movements: the four axis directions under presets, the build   *)
(* trail, the loop and the phase.                                          *)

\* the set_control calls of the axis specification: <<name, value>>
AxisInputs ==
  { <<"scroll_direction", "L to R">>, <<"scroll_direction", "R to L">>,
    <<"scroll_direction", "T to B">>, <<"scroll_direction", "B to T">>,
    <<"scroll_build_effect", TRUE>>, <<"loop_effect", TRUE>>,
    <<"scroll_phase", 50>>, <<"visual_preset", "Cross">>,
    <<"visual_preset", "Bracket">> }

\* a call of set_control(name, value)
AxisSetControl ==
  /\ nOps < MaxMoveChanges
  /\ \E in \in AxisInputs :
       controls' = set_control(controls, in[1], in[2]).controls
  /\ nOps' = nOps + 1
  /\ UNCHANGED <<brightness, movement, tick, last, dmx, hist, mono, web>>

NextAxis == AxisSetControl \/ MoveTick

SpecAxis == Init /\ [][NextAxis]_vars

-----------------------------------------------------------------------------
(* The refactoring: the package's engine and the monolithic engine under   *)
(* the same control values and the same injected timestamps.               *)

\* the control values both engines are given: <<name, value>>
RefactorInputs ==
  { <<"dimmer", 50>>, <<"pulse", 50>>, <<"visual_preset", "Bracket">>,
    <<"scroll_direction", "L to R">>, <<"scroll_direction", "Pinwheel">>,
    <<"scroll_direction", "None">>, <<"scroll_build_effect", TRUE>> }

\* the same control value set on both engines
RefactorSetControl ==
  /\ nOps < MaxMoveChanges
  /\ \E in \in RefactorInputs :
       /\ controls' = set_control(controls, in[1], in[2]).controls
       /\ mono' = [ mono EXCEPT !.controls =
                      MonolithHandleOscControl(@, in[1], in[2]) ]
  /\ nOps' = nOps + 1
  /\ UNCHANGED <<brightness, movement, tick, last, dmx, hist, web>>

\* update(current_time) of both engines with the same timestamp
RefactorTick ==
  /\ dmx.constructed
  /\ tick.status # "hung"
  /\ \E k \in (tick.k + 1) .. MaxTime :
       /\ TickResult(Update(movement, controls, TickTime(k), 0, Shuffle(0)),
                     k, TRUE)
       /\ mono' = MonolithUpdate(mono, TickTime(k), Shuffle(0)).mono
  /\ UNCHANGED <<controls, last, nOps, hist, web>>

NextRefactor == RefactorSetControl \/ RefactorTick

SpecRefactor == Init /\ [][NextRefactor]_vars

-----------------------------------------------------------------------------
(* The visual presets: every preset, the master dimmer and a movement,     *)
(* with the history of each tick.                                          *)

\* the set_control calls of the preset specification: <<name, value>>
PresetInputs ==
  { <<"visual_preset", label>> : label \in Labels(VisualPreset) }
    \cup { <<"dimmer", 50>>, <<"dimmer", 100>>,
           <<"scroll_direction", "L to R">> }

\* a call of set_control(name, value)
PresetSetControl ==
  /\ nOps < MaxOps
  /\ \E in \in PresetInputs :
       controls' = set_control(controls, in[1], in[2]).controls
  /\ nOps' = nOps + 1
  /\ UNCHANGED <<brightness, movement, tick, last, dmx, hist, mono, web>>

NextPreset == PresetSetControl \/ MoveTick

SpecPreset == Init /\ [][NextPreset]_vars

-----------------------------------------------------------------------------
(* The control plane: set_control calls and inbound OSC messages.          *)

\* the set_control calls of the control plane: every field with a valid
\* value, out-of-range numbers, unknown labels and an unknown name
CtlInputs ==
  { <<"dimmer", 42>>, <<"dimmer", 150>>, <<"strobe", 50>>, <<"pulse", 101>>,
    <<"laser_move_speed", 30>>, <<"laser_move_speed", 0>>,
    <<"shocker_speed", 70>>, <<"saber_speed", 20>>,
    <<"scroll_laser_count", 3>>, <<"scroll_laser_count", 20>>,
    <<"scroll_fade", 20>>, <<"scroll_phase", 35>>,
    <<"bpm", 120>>, <<"bpm", 0>>,
    <<"effect_application", "Alternate">>, <<"effect_application", "Bogus">>,
    <<"visual_preset", "Cross">>, <<"visual_preset", "Bogus">>,
    <<"scroll_direction", "L to R">>, <<"scroll_direction", "Spot">>,
    <<"scroll_direction", "None">>, <<"scroll_direction", "Bogus">>,
    <<"beat_strobe_rate", "1/2">>, <<"beat_strobe_rate", "Bogus">>,
    <<"beat_pulse_rate", "1">>, <<"beat_laser_move_speed_rate", "4">>,
    <<"beat_shocker_speed_rate", "1/3">>, <<"beat_saber_speed_rate", "1">>,
    <<"loop_effect", TRUE>>, <<"scroll_build_effect", TRUE>>,
    <<"show_laser_origins", TRUE>>, <<"beat_sync_enabled", TRUE>>,
    <<"nonexistent", 1>> }

\* the inbound OSC messages <<leaf, argument>>: slider and toggle floats in
\* 0..1, labels, laser_count integers, bpm floats
OscMessages ==
  { <<"dimmer", 0>>, <<"dimmer", OscDen \div 2>>, <<"dimmer", OscDen>>,
    <<"strobe", OscDen>>, <<"pulse", OscDen \div 2>>,
    <<"speed", 0>>, <<"speed", OscDen>>,
    <<"fade", 0>>, <<"fade", OscDen>>, <<"loop", OscDen>>,
    <<"phase", OscDen>>, <<"build", OscDen>>,
    <<"preset", "Cross">>, <<"preset", "Bogus">>,
    <<"direction", "To TL">>, <<"direction", "Bogus">>,
    <<"effect_mode", "Alternate">>,
    <<"laser_count", 8>>, <<"laser_count", 0>>, <<"laser_count", 20>>,
    <<"beat_sync", OscDen>>,
    <<"bpm", 120 * OscDen + OscDen \div 2>>, <<"bpm", 0>>,
    <<"bpm", 400 * OscDen>>,
    <<"unmapped", OscDen>> }

\* a call of set_control(name, value)
CtlSetControl ==
  /\ nOps < MaxOps
  /\ \E in \in CtlInputs :
       LET r == set_control(controls, in[1], in[2])
       IN  /\ controls' = r.controls
           /\ last' = [ op |-> "set_control", name |-> in[1], value |-> in[2],
                        ret |-> r.ret, raised |-> FALSE, pre |-> controls ]
  /\ nOps' = nOps + 1
  /\ UNCHANGED <<brightness, movement, tick, dmx, hist, mono, web>>

\* the handler mapped for the leaf of an inbound message runs
CtlOsc ==
  /\ nOps < MaxOps
  /\ \E msg \in OscMessages :
       LET cb == OscCallback(msg[1], msg[2])
           r == OscHandle(controls, msg[1], msg[2])
       IN  /\ controls' = r.controls
           /\ last' = [ op |-> "osc", name |-> cb[1], value |-> cb[2],
                        ret |-> TRUE, raised |-> r.raised, pre |-> controls ]
  /\ nOps' = nOps + 1
  /\ UNCHANGED <<brightness, movement, tick, dmx, hist, mono, web>>

NextControl == CtlSetControl \/ CtlOsc

SpecControl == Init /\ [][NextControl]_vars

-----------------------------------------------------------------------------
(* The OSC server's routing.  _register_handlers maps one address per      *)
(* recognized leaf and then the pattern <prefix>/*; the pythonosc          *)
(* Dispatcher (imported at controllers/osc.py:10) calls, in the order of   *)
(* registration, every handler whose mapped address matches the address   *)
(* of the message, a mapped * matching any leaf.  Float arguments here    *)
(* are whole numbers, so the argument the catch-all forwards is a value    *)
(* of the control's own type.                                              *)

\* the leaves mapped by _register_handlers, in the order of the disp.map
\* calls; "*" is the catch-all pattern
OscRoutes ==
  << "dimmer", "strobe", "pulse", "speed", "fade", "loop", "phase", "build",
     "preset", "direction", "effect_mode", "laser_count", "beat_sync", "bpm",
     "*" >>

\* the leaves whose handlers take a label or an integer, not a float
OscTypedLeaves == {"preset", "direction", "effect_mode", "laser_count"}

\* _handle_generic: the leaf as the control name, args[0] as the value; an
\* empty leaf is dropped
handle_generic(c, leaf, arg) ==
  IF leaf # ""
  THEN HandleOscControl(c, leaf,
                        IF leaf \in OscTypedLeaves THEN arg
                        ELSE arg \div OscDen).controls
  ELSE c

\* the handler mapped at route runs on the message <<leaf, arg>>
OscInvoke(c, route, leaf, arg) ==
  IF route = "*" THEN handle_generic(c, leaf, arg)
  ELSE OscHandle(c, route, arg).controls

RECURSIVE OscDispatchFrom(_, _, _, _)
\* the handlers of the routes i.. that match the leaf run in order
OscDispatchFrom(c, i, leaf, arg) ==
  IF i > Len(OscRoutes) THEN c
  ELSE OscDispatchFrom(
         IF OscRoutes[i] = leaf \/ OscRoutes[i] = "*"
         THEN OscInvoke(c, OscRoutes[i], leaf, arg) ELSE c,
         i + 1, leaf, arg)

\* one inbound message <prefix>/<leaf> goes through the dispatcher
OscDispatch(c, leaf, arg) == OscDispatchFrom(c, 1, leaf, arg)

\* inbound messages with whole-number float arguments
OscWholeMessages ==
  { <<"dimmer", 0>>, <<"dimmer", OscDen>>, <<"strobe", OscDen>>,
    <<"pulse", OscDen>>, <<"speed", OscDen>>, <<"fade", OscDen>>,
    <<"loop", OscDen>>, <<"phase", OscDen>>, <<"build", OscDen>>,
    <<"preset", "Cross">>, <<"direction", "To TL">>,
    <<"effect_mode", "Alternate">>, <<"laser_count", 8>>,
    <<"beat_sync", OscDen>>, <<"bpm", 120 * OscDen>>,
    <<"unmapped", OscDen>>, <<"show_laser_origins", OscDen>> }

\* the OSC server receives one message
OscMessage ==
  /\ nOps < MaxOps
  /\ \E msg \in OscWholeMessages :
       /\ controls' = OscDispatch(controls, msg[1], msg[2])
       /\ last' = [ op |-> "osc_message", name |-> msg[1], value |-> msg[2],
                    ret |-> TRUE, raised |-> FALSE, pre |-> controls ]
  /\ nOps' = nOps + 1
  /\ UNCHANGED <<brightness, movement, tick, dmx, hist, mono, web>>

NextOsc == OscMessage \/ CtlSetControl

SpecOsc == Init /\ [][NextOsc]_vars

-----------------------------------------------------------------------------
(* The tick and the inbound channel as the two threads they are: update()  *)
(* runs in the simulator loop, _handle_osc_control in the OSC server       *)
(* thread or the web handler, and no lock orders them.  A tick is the      *)
(* sequence of its stages; each stage reads self.controls when it runs.    *)

\* the writes of the inbound channel: <<name, value>>
RaceInputs ==
  { <<"dimmer", 50>>, <<"pulse", 50>>, <<"beat_sync_enabled", TRUE>>,
    <<"effect_application", "Alternate">>, <<"scroll_direction", "L to R">>,
    <<"scroll_direction", "None">>, <<"scroll_build_effect", TRUE>> }

\* the inbound channel calls _handle_osc_control(name, value)
Inbound ==
  /\ nOps < MaxOps
  /\ \E in \in RaceInputs :
       controls' = HandleOscControl(controls, in[1], in[2]).controls
  /\ nOps' = nOps + 1
  /\ UNCHANGED <<brightness, movement, tick, last, dmx, hist, mono, web>>

\* update() starts: the timestamp is taken and every laser is reset to 0
RaceBegin ==
  /\ tick.pc = "idle"
  /\ \E k \in (tick.k + 1) .. MaxTime :
       tick' = [ pc |-> "preset", status |-> "running", k |-> k,
                 entry |-> controls ]
  /\ brightness' = AllOff
  /\ UNCHANGED <<controls, movement, last, nOps, dmx, hist, mono, web>>

RacePreset ==
  /\ tick.pc = "preset"
  /\ brightness' = StagePreset(brightness, controls)
  /\ tick' = [ tick EXCEPT !.pc = "pulse" ]
  /\ UNCHANGED <<controls, movement, last, nOps, dmx, hist, mono, web>>

RacePulse ==
  /\ tick.pc = "pulse"
  /\ brightness' = StagePulse(brightness, controls, TickTime(tick.k))
  /\ tick' = [ tick EXCEPT !.pc = "strobe" ]
  /\ UNCHANGED <<controls, movement, last, nOps, dmx, hist, mono, web>>

RaceStrobe ==
  /\ tick.pc = "strobe"
  /\ brightness' = StageStrobe(brightness, controls, TickTime(tick.k))
  /\ tick' = [ tick EXCEPT !.pc = "movement" ]
  /\ UNCHANGED <<controls, movement, last, nOps, dmx, hist, mono, web>>

\* the state the Movement stage leaves, r its outcome: the pass goes on to
\* the dimmer unless an exception ended it
RaceMovementResult(r) ==
  /\ brightness' = r.b
  /\ movement' = r.m
  /\ tick' = IF r.status = "ok"
             THEN [ tick EXCEPT !.pc = "dimmer" ]
             ELSE [ tick EXCEPT !.pc = "idle", !.status = r.status ]
  /\ dmx' = dmx

RaceMovement ==
  /\ tick.pc = "movement"
  /\ \E dt \in (IF controls.scroll_direction = "SPOT" THEN DeltaTimes ELSE {0}) :
       \E seed \in (IF controls.scroll_direction = "SPOT"
                    THEN 0 .. (NumShuffles - 1) ELSE {0}) :
         RaceMovementResult(StageMovement(brightness, movement, controls,
                                          TickTime(tick.k), dt, Shuffle(seed)))
  /\ UNCHANGED <<controls, last, nOps, hist, mono, web>>

RaceDimmer ==
  /\ tick.pc = "dimmer"
  /\ brightness' = ApplyDimmer(brightness, controls)
  /\ tick' = [ tick EXCEPT !.pc = "idle", !.status = "ok" ]
  /\ \E write_ok \in (IF dmx.connected THEN BOOLEAN ELSE {TRUE}) :
       dmx' = update_controllers(dmx, ApplyDimmer(brightness, controls),
                                 write_ok)
  /\ UNCHANGED <<controls, movement, last, nOps, hist, mono, web>>

NextRace ==
  \/ Inbound
  \/ RaceBegin
  \/ RacePreset
  \/ RacePulse
  \/ RaceStrobe
  \/ RaceMovement
  \/ RaceDimmer

SpecRace == Init /\ [][NextRace]_vars

-----------------------------------------------------------------------------
(* Properties.                                                             *)

\* the range each numeric control is required to stay in
DeclaredRange ==
  [ dimmer |-> <<0, 100>>, strobe |-> <<0, 100>>, pulse |-> <<0, 100>>,
    laser_move_speed |-> <<1, 100>>, scroll_laser_count |-> <<1, 14>>,
    scroll_fade |-> <<0, 100>>, scroll_phase |-> <<0, 100>>,
    bpm |-> <<1, 300>> ]

InRange(name, v) == DeclaredRange[name][1] <= v /\ v <= DeclaredRange[name][2]

\* the most recent operation names a control with a declared range and
\* passes a number outside it
OutOfRangeWrite ==
  /\ last.name \in DOMAIN DeclaredRange
  /\ ~InRange(last.name, last.value)

\* the most recent operation names an enum control and passes a string
\* that is the label of none of its members
UnknownLabelWrite ==
  /\ last.name \in EnumFields
  /\ last.value \notin Labels(EnumClassOf(last.name))

\* every control but one has the value it had before the operation
OthersUnchanged(name) ==
  \A f \in FieldNames \ {name} : controls[f] = last.pre[f]

\* a value the data model accepts for the control
ValidValue(name, v) ==
  /\ name \in FieldNames
  /\ IF name \in EnumFields THEN v \in Labels(EnumClassOf(name))
     ELSE IF name \in DOMAIN DeclaredRange THEN InRange(name, v)
     ELSE TRUE

\* C1: after every tick, whatever numeric control changes and timestamps
\* came before, each of the 28 lasers has a brightness between 0 and 255.
C1_BrightnessInRange ==
  \A i \in LaserIdx : brightness[i] \in 0 .. 255

\* a tick ran with the dimmer above 100 and left a laser at full brightness
C1_Witness ==
  /\ tick.status = "ok"
  /\ tick.entry.dimmer > 100
  /\ \E i \in LaserIdx : brightness[i] = DEFAULT_BRIGHTNESS

\* C2: control writes of the inbound channel are serialized with the tick:
\* while an update() pass is between its start and its end, the controls
\* are the ones the pass started with, so every stage reads the same values.
C2_WritesSerializedWithTick ==
  tick.pc # "idle" => controls = tick.entry

\* C3: set_control with a number outside the control's declared range
\* reports failure and leaves the stored value of the control unchanged.
C3_OutOfRangeRejected ==
  (last.op = "set_control" /\ OutOfRangeWrite)
    => (~last.ret /\ controls[last.name] = last.pre[last.name])

\* C4: after any sequence of OSC messages and set_control calls every
\* ranged field of ControlsState is inside its declared range.
C4_ControlsInDeclaredRange ==
  \A f \in DOMAIN DeclaredRange : InRange(f, controls[f])

\* C5: setting scroll_direction to a string that is no ScrollDirection
\* label sets it to NONE whatever it was, raises nothing and changes no
\* other control.
C5_UnknownDirectionFallsBackToNone ==
  (last.op \in {"set_control", "osc"} /\ last.name = "scroll_direction"
     /\ UnknownLabelWrite)
    => /\ controls.scroll_direction = "NONE"
       /\ ~last.raised
       /\ OthersUnchanged("scroll_direction")

\* an unknown direction label arrived while a movement was selected
C5_Witness ==
  /\ last.op \in {"set_control", "osc"}
  /\ last.name = "scroll_direction"
  /\ last.value = "Bogus"
  /\ last.pre.scroll_direction # "NONE"
  /\ controls.scroll_direction = "NONE"

\* C6: setting visual_preset, effect_application or a beat-rate control to
\* a label outside its enumeration keeps the previous value, changes no
\* other control, and no exception escapes set_control.
C6_UnknownLabelKeepsValue ==
  (last.op \in {"set_control", "osc"} /\ last.name # "scroll_direction"
     /\ UnknownLabelWrite)
    => /\ controls = last.pre
       /\ ~last.raised

\* an unknown preset label arrived while a non-default preset was selected
C6_Witness ==
  /\ last.op = "set_control"
  /\ last.name = "visual_preset"
  /\ last.value = "Bogus"
  /\ last.pre.visual_preset = "CROSS"
  /\ controls.visual_preset = "CROSS"

\* C7: set_control returns True only when the named control was updated:
\* for an unknown name or an unconvertible enum label it returns False and
\* the control state is unchanged.
C7_FalseWhenNotUpdated ==
  (last.op = "set_control"
     /\ (last.name \notin FieldNames \/ UnknownLabelWrite))
    => (~last.ret /\ controls = last.pre)

\* C8: set_control(name, v) with a valid v, then get_control(name), returns
\* v (for an enum control the member labelled v); get_state()['controls']
\* reports v under name; no other control changes.
C8_SetThenGet ==
  (last.op = "set_control" /\ ValidValue(last.name, last.value))
    => /\ IF last.name \in EnumFields
          THEN EnumClassOf(last.name)[get_control(controls, last.name)] = last.value
          ELSE get_control(controls, last.name) = last.value
       /\ get_state_controls(controls)[last.name] = last.value
       /\ OthersUnchanged(last.name)

\* a preset was set by its label and read back as the member
C8_Witness ==
  /\ last.op = "set_control"
  /\ last.name = "visual_preset"
  /\ last.value = "Cross"
  /\ last.pre.visual_preset # "CROSS"
  /\ get_control(controls, "visual_preset") = "CROSS"

\* C9: after every tick a laser outside the index set of the preset the
\* tick ran with is off, whatever pulse, strobe, movement (build trail and
\* spot mask included) and dimmer are and whatever movement state earlier
\* ticks left.
C9_PresetMaskedLasersStayOff ==
  tick.status # "none"
    => \A i \in LaserIdx \ PresetSet(tick.entry.visual_preset) :
         brightness[i] = 0

\* a tick ran with a partial preset and a moving wave with build trail: the
\* trail holds a laser outside the preset, and a laser of the preset is lit
C9_Witness ==
  /\ tick.status = "ok"
  /\ tick.entry.visual_preset = "BRACKET"
  /\ tick.entry.scroll_build_effect
  /\ tick.entry.scroll_direction = "LEFT_TO_RIGHT"
  /\ \E i \in LaserIdx \ PresetSet("BRACKET") : movement.built_lasers[i] > 0
  /\ \E j \in PresetSet("BRACKET") : brightness[j] > 0

\* C10: after any tick executed with scroll_direction NONE the Movement
\* transient state is the reset state: no build trail, no spot mask, zero
\* accumulator, no recorded progress, no direction key.
C10_NoneResetsMovement ==
  (tick.status = "ok" /\ tick.entry.scroll_direction = "NONE")
    => movement = MovementInitState

\* the most recent tick ran Movement to its end; its (direction, build) pair
MovementTick == tick.status = "ok" /\ tick.entry.scroll_direction # "NONE"

TickKey == <<tick.entry.scroll_direction, tick.entry.scroll_build_effect>>

KeyChanged == hist.pre.last_direction_key # TickKey

\* the most recent tick ran one of the wave strategies
WaveTick ==
  /\ MovementTick
  /\ tick.entry.scroll_direction \notin {"SPOT", "LOOP_CENTER"}

\* the progress key of a wave direction
ProgressKeyOf(direction) ==
  CASE direction = "LEFT_TO_RIGHT" -> "top-False"
    [] direction = "RIGHT_TO_LEFT" -> "top-True"
    [] direction = "TOP_TO_BOTTOM" -> "side-False"
    [] direction = "BOTTOM_TO_TOP" -> "side-True"
    [] OTHER -> ScrollDirection[direction]

\* the progress recorded under the tick's key before and after the tick
ProgressBefore == hist.pre.last_progress[ProgressKeyOf(tick.entry.scroll_direction)]

ProgressAfter == movement.last_progress[ProgressKeyOf(tick.entry.scroll_direction)]

\* the tick found a recorded progress above the one it computed, with
\* build on and loop off
Wrapped ==
  /\ WaveTick
  /\ ~KeyChanged
  /\ tick.entry.scroll_build_effect
  /\ ~tick.entry.loop_effect
  /\ Len(ProgressBefore) = 1
  /\ Len(ProgressAfter) = 1
  /\ ProgressAfter[1] < ProgressBefore[1]

\* C11: a Movement tick whose (scroll_direction, scroll_build_effect) pair
\* differs from the recorded one leaves the state the same tick leaves when
\* started from the reset state (trail, spot mask, accumulator and recorded
\* progress cleared before the wave is computed) and records the new pair;
\* a tick with the recorded pair clears nothing: the spot accumulator and
\* mask carry on, the recorded progress stays recorded, and the trail only
\* grows unless the sweep wrapped.
C11_KeyChangeResetsState ==
  MovementTick =>
    IF KeyChanged
    THEN /\ movement.last_direction_key = TickKey
         /\ \E seed \in 0 .. (NumShuffles - 1) :
              movement = MovementApply(AllOff, MovementInitState, tick.entry,
                                       TickTime(tick.k), hist.dt, Shuffle(seed),
                                       DEFAULT_BRIGHTNESS).m
         /\ tick.entry.scroll_direction # "SPOT"
              => /\ movement.spot_time_accumulator = 0
                 /\ \A i \in LaserIdx : ~movement.spot_lasers[i]
         /\ tick.entry.scroll_direction = "SPOT"
              => /\ \A i \in LaserIdx : movement.built_lasers[i] = 0
                 /\ \A key \in ProgressKeys : movement.last_progress[key] = <<>>
                 /\ movement.spot_time_accumulator <= hist.dt * 1000
    ELSE /\ movement.last_direction_key = hist.pre.last_direction_key
         /\ \A key \in ProgressKeys :
              hist.pre.last_progress[key] # <<>> => movement.last_progress[key] # <<>>
         /\ tick.entry.scroll_direction = "SPOT"
              => \/ /\ movement.spot_lasers = hist.pre.spot_lasers
                    /\ movement.spot_time_accumulator
                         = hist.pre.spot_time_accumulator + hist.dt * 1000
                 \/ movement.spot_time_accumulator
                      < hist.pre.spot_time_accumulator + hist.dt * 1000
         /\ (WaveTick /\ ~Wrapped)
              => \A i \in LaserIdx :
                   movement.built_lasers[i] >= hist.pre.built_lasers[i]

\* a tick ran with a new direction after a tick that left a build trail:
\* a laser of the old trail is cleared
C11_Witness ==
  /\ MovementTick
  /\ KeyChanged
  /\ tick.entry.scroll_build_effect
  /\ \E i \in LaserIdx :
       hist.pre.built_lasers[i] > 0 /\ movement.built_lasers[i] = 0

\* the Movement state after _update_progress took the first j of the
\* samples under one key
RECURSIVE AfterSamples(_, _, _, _)
AfterSamples(samples, j, key, c) ==
  IF j = 0
  THEN MovementInitState
  ELSE update_progress(AfterSamples(samples, j - 1, key, c), key, samples[j], c)

\* sample j, arriving with a full trail, leaves it cleared
SampleClears(samples, j, key, c) ==
  LET before == [ AfterSamples(samples, j - 1, key, c) EXCEPT
                    !.built_lasers = [ i \in LaserIdx |-> DEFAULT_BRIGHTNESS ] ]
  IN  update_progress(before, key, samples[j], c).built_lasers = ZeroMask

ProgressSamples == <<5, 10, 15, 2>>

\* C12: with build on and loop off, progress tracking clears the trail on
\* exactly the ticks that compute a progress below the one recorded under
\* the same key by the previous tick: such a tick leaves the trail a tick
\* from the cleared state leaves, every other tick with the recorded pair
\* leaves every trail entry at least what it was (so with loop on or build
\* off nothing is cleared); of the progress samples 5, 10, 15, 2 the fourth
\* and only the fourth clears, and none does with loop on or build off.
C12_WrapClearsTrail ==
  /\ (WaveTick /\ ~KeyChanged) =>
       IF Wrapped
       THEN movement.built_lasers
              = MovementApply(AllOff, MovementInitState, tick.entry,
                              TickTime(tick.k), hist.dt, Shuffle(0),
                              DEFAULT_BRIGHTNESS).m.built_lasers
       ELSE \A i \in LaserIdx :
              movement.built_lasers[i] >= hist.pre.built_lasers[i]
  /\ \A j \in 1 .. Len(ProgressSamples) :
       /\ SampleClears(ProgressSamples, j, "top-False",
                       [ ControlsState EXCEPT !.scroll_build_effect = TRUE ])
            <=> (j = 4)
       /\ ~SampleClears(ProgressSamples, j, "top-False",
                        [ ControlsState EXCEPT !.scroll_build_effect = TRUE,
                                               !.loop_effect = TRUE ])
       /\ ~SampleClears(ProgressSamples, j, "top-False", ControlsState)

\* a sweep with build on and loop off wrapped: the tick computed a progress
\* below the recorded one and a laser of the old trail is dark in the new
C12_Witness ==
  /\ Wrapped
  /\ \E i \in LaserIdx :
       hist.pre.built_lasers[i] > 0 /\ movement.built_lasers[i] = 0

\* the controls leave every laser at base brightness before Movement and
\* the dimmer passes it on: a laser's brightness after the tick is
\* base_brightness times its movement multiplier
PlainPipeline(c) ==
  /\ c.visual_preset = "GRID"
  /\ c.pulse = 0
  /\ c.strobe = 0
  /\ ~c.beat_sync_enabled
  /\ c.dimmer = 100

\* C13: with build on, a laser the wave of a wave-based direction (axis,
\* center, diagonal, pinwheel) lit with raw value v > 0 keeps a movement
\* multiplier of at least v/255 on the next tick unless the trail is
\* cleared in between.  Stated on two successive ticks under the same
\* controls, the first starting from a cleared trail (its multiplier is
\* its raw wave value), the second without a wrap.
C13_TrailKeepsPassedLasersLit ==
  [][ ( /\ WaveTick
        /\ tick.entry.scroll_build_effect
        /\ PlainPipeline(tick.entry)
        /\ hist.pre.built_lasers = ZeroMask \/ KeyChanged
        /\ tick'.k > tick.k
        /\ tick'.status = "ok"
        /\ tick'.entry = tick.entry
        /\ LET key == ProgressKeyOf(tick.entry.scroll_direction)
           IN  \/ tick.entry.loop_effect
               \/ movement'.last_progress[key][1] >= movement.last_progress[key][1] )
      => \A i \in LaserIdx : brightness'[i] >= brightness[i] ]_vars

\* the most recent tick ran the spot effect to its end
SpotTick == MovementTick /\ tick.entry.scroll_direction = "SPOT"

\* the spot mask and accumulator the spot effect of the tick started with:
\* the reset ones after a key change
SpotStart ==
  IF KeyChanged THEN MovementInitState ELSE hist.pre

\* the accumulated time reached the interval 1/frequency, frequency =
\* 0.5 * (1 + 29 * (speed - 1) / 99): the tick refreshed the mask
SpotRefreshed ==
  SpotStart.spot_time_accumulator + hist.dt * 1000
    >= PyFloorDiv(198 * AccDen, 29 * tick.entry.laser_move_speed + 70)

SpotMask(m) == { i \in LaserIdx : m.spot_lasers[i] }

C15_DeterministicUnderInjectedTime ==
  \A k \in 0 .. MaxTime : \A seed \in 0 .. (NumShuffles - 1) :
    \A dt1 \in DeltaTimes : \A dt2 \in DeltaTimes :
      Update(movement, controls, TickTime(k), dt1, Shuffle(seed))
        = Update(movement, controls, TickTime(k), dt2, Shuffle(seed))

\* the most recent tick ran with manual strobe: strobe > 0 and no beat strobe
ManualStrobeTick ==
  /\ tick.status # "none"
  /\ tick.entry.strobe > 0
  /\ ~is_beat_effect_active(tick.entry.beat_sync_enabled, tick.entry.bpm,
                            tick.entry.beat_strobe_rate)

\* time / period of the tick, period = 1 / ((strobe / 100) * 20), as the
\* fraction StrobeCycles / StrobeCycleDen
StrobeCycles == TickTime(tick.k) * tick.entry.strobe

StrobeCycleDen == 5 * TimeDen

\* (time mod period) / period >= 0.5
StrobeOffHalf == 2 * (StrobeCycles % StrobeCycleDen) >= StrobeCycleDen

\* floor(time * frequency)
StrobeCycleCount == StrobeCycles \div StrobeCycleDen

TopLasers == { i \in LaserIdx : IsTop(i) }

SideLasers == { i \in LaserIdx : ~IsTop(i) }

\* C16: after a tick with manual strobe whose time falls in the off half of
\* the strobe cycle every one of the 28 lasers is at 0, whatever preset,
\* application mode, pulse, movement and dimmer are.
C16_StrobeOffHalfIsDark ==
  (ManualStrobeTick /\ StrobeOffHalf)
    => \A i \in LaserIdx : brightness[i] = 0

\* a tick that would light the whole grid fell in the off half of the
\* strobe cycle and left it dark
C16_Witness ==
  /\ ManualStrobeTick
  /\ StrobeOffHalf
  /\ tick.status = "ok"
  /\ tick.entry.visual_preset = "GRID"
  /\ tick.entry.dimmer >= 100
  /\ tick.entry.pulse = 0
  /\ tick.entry.scroll_direction = "NONE"
  /\ \A i \in LaserIdx : brightness[i] = 0

\* C17 as stated: in the on half of a manual strobe cycle with application
\* ALTERNATE the TOP group is zeroed when the cycle count is even and the
\* SIDE group when it is odd.
C17_TopZeroedOnEvenCycles ==
  (ManualStrobeTick /\ ~StrobeOffHalf
     /\ tick.entry.effect_application = "ALTERNATE")
    => /\ StrobeCycleCount % 2 = 0 => \A i \in TopLasers : brightness[i] = 0
       /\ StrobeCycleCount % 2 = 1 => \A i \in SideLasers : brightness[i] = 0

\* C17, amended: in the on half of a manual strobe cycle with application
\* ALTERNATE the SIDE group is zeroed when the cycle count is even (TOP is
\* the active group) and the TOP group when it is odd, so at most one of
\* the two groups holds a lit laser.
C17_SideZeroedOnEvenCycles ==
  (ManualStrobeTick /\ ~StrobeOffHalf
     /\ tick.entry.effect_application = "ALTERNATE")
    => /\ StrobeCycleCount % 2 = 0 => \A i \in SideLasers : brightness[i] = 0
       /\ StrobeCycleCount % 2 = 1 => \A i \in TopLasers : brightness[i] = 0
       /\ \/ \A i \in TopLasers : brightness[i] = 0
          \/ \A i \in SideLasers : brightness[i] = 0

\* an alternating strobe in the on half of an odd cycle: the SIDE group is
\* lit and the TOP group dark
C17_Witness ==
  /\ ManualStrobeTick
  /\ ~StrobeOffHalf
  /\ tick.entry.effect_application = "ALTERNATE"
  /\ StrobeCycleCount % 2 = 1
  /\ \E i \in SideLasers : brightness[i] > 0
  /\ \A i \in TopLasers : brightness[i] = 0

\* the packet of a dark universe: 0x7E, 512 zero bytes, 0xE7
ZeroPacket == <<126>> \o [ ch \in 1 .. DmxChannels |-> 0 ] \o <<231>>

\* C18: when a tick leaves all 28 lasers at 0 on an engine with DMX enabled
\* and connected, the packet it sent is 0x7E, 512 zero bytes, 0xE7,
\* whatever ticks, control changes and address changes came before; and
\* every packet sent is 0x7E, the 512 bytes of the buffer, 0xE7.
C18_DarkArrayGivesZeroPacket ==
  /\ (tick.status = "ok" /\ dmx.enabled /\ dmx.connected
        /\ \A i \in LaserIdx : brightness[i] = 0)
       => dmx.packet = ZeroPacket
  /\ dmx.packet # <<>>
       => /\ Len(dmx.packet) = DmxChannels + 2
          /\ dmx.packet = <<126>> \o dmx.dmx_data \o <<231>>

\* C19: the laser addresses are pairwise distinct and within 1..512 after
\* construction and after any sequence of set_dmx_address calls.
C19_AddressesDistinctInRange ==
  dmx.constructed =>
    /\ \A i \in LaserIdx : 1 <= dmx.address[i] /\ dmx.address[i] <= 512
    /\ \A i \in LaserIdx : \A j \in LaserIdx :
         i # j => dmx.address[i] # dmx.address[j]

\* C20: for every DMXConfig with start_address in 1..512 the engine is
\* constructed and laser k of the flat array has address start_address + k.
C20_ConstructionAssignsSequentialAddresses ==
  (tick.status = "none" /\ nOps = 0)
    => /\ dmx.constructed
       /\ \A k \in LaserIdx : dmx.address[k] = dmx.start_address + k

\* a channel write has just been made
ChannelWrite ==
  /\ nOps' = nOps + 1
  /\ last'.op \in { "update_laser", "set_channel_value" }

\* the buffer the claim gives for a write of value at address
ClampedWrite(dmx_data, address, value) ==
  IF 1 <= address /\ address <= 512
  THEN [ dmx_data EXCEPT ![address] = Max(0, Min(255, value)) ]
  ELSE dmx_data

\* C21: a channel write through the adapter (update_laser,
\* set_channel_value) stores the value clamped to 0..255 at slot address-1
\* when 1 <= address <= 512 and leaves the other slots unchanged; for any
\* other address the buffer is unchanged; every slot holds a value in 0..255
C21_ChannelWriteClamps ==
  [][ /\ ChannelWrite =>
          dmx'.dmx_data = ClampedWrite(dmx.dmx_data, last'.name, last'.value)
      /\ \A ch \in 1 .. DmxChannels :
          0 <= dmx'.dmx_data[ch] /\ dmx'.dmx_data[ch] <= 255 ]_vars

\* a tick has just run
TickStep == tick'.k # tick.k

\* the DMX output is disabled: the port did not open or a write failed
OutputDisabled == dmx.enabled /\ ~dmx.connected

\* C22: if the serial port cannot be opened or a serial write fails during
\* a tick, the tick still completes with the brightness the pipeline
\* computes, and on every later tick no write is attempted: the controller
\* stays disconnected and the last packet written stays what it was
C22_FailedTransportDisablesOutput ==
  [][ /\ TickStep =>
          /\ tick'.status = "ok"
          /\ brightness' = Update(movement, controls, TickTime(tick'.k), 0,
                                  Shuffle(0)).b
      /\ dmx'.write = "failed" => ~dmx'.connected
      /\ OutputDisabled =>
          /\ ~dmx'.connected
          /\ dmx'.packet = dmx.packet
          /\ TickStep => dmx'.write = "none" ]_vars

\* a packet was sent, a later write failed, and a tick after that ran
\* without a write
C22_Witness ==
  /\ dmx.enabled
  /\ dmx.packet # <<>>
  /\ ~dmx.connected
  /\ dmx.write = "none"
  /\ tick.k = 2 /\ tick.status = "ok"
  /\ \E i \in LaserIdx : brightness[i] > 0

\* C23: for the same control values and the same injected timestamps the
\* package's engine produces after every tick the same 28 brightness
\* values as the monolithic engine
C23_ModularEqualsMonolith ==
  (tick.k >= 0 /\ tick.status = "ok") => brightness = mono.brightness

\* the tick ran with no pulse, strobe or movement active
QuietTick ==
  /\ tick.k >= 0 /\ tick.status = "ok"
  /\ tick.entry.pulse = 0 /\ tick.entry.strobe = 0
  /\ ~tick.entry.beat_sync_enabled
  /\ tick.entry.scroll_direction = "NONE"

\* the brightness array the effects leave before the master dimmer
BeforeDimmer ==
  StageMovement(
    StageStrobe(StagePulse(StagePreset(AllOff, tick.entry), tick.entry,
                           TickTime(tick.k)),
                tick.entry, TickTime(tick.k)),
    hist.pre, tick.entry, TickTime(tick.k), hist.dt, Shuffle(0)).b

\* C24: with the GRID preset and no pulse, strobe or movement, after a tick
\* all 28 lasers are 255 at dimmer 100 and 127 at dimmer 50; the master
\* dimmer is the last stage of the tick, applied to what Movement leaves
C24_GridDimmerLast ==
  /\ (QuietTick /\ tick.entry.visual_preset = "GRID") =>
       /\ tick.entry.dimmer = 100 => \A i \in LaserIdx : brightness[i] = 255
       /\ tick.entry.dimmer = 50 => \A i \in LaserIdx : brightness[i] = 127
  /\ (tick.k >= 0 /\ tick.status = "ok") =>
       brightness = [ i \in LaserIdx |->
                        apply_dimmer(BeforeDimmer[i], tick.entry.dimmer) ]

\* a tick of the GRID preset at dimmer 50 with nothing else active
C24_Witness ==
  /\ QuietTick
  /\ tick.entry.visual_preset = "GRID"
  /\ tick.entry.dimmer = 50
  /\ \A i \in LaserIdx : brightness[i] = 127

\* index set s on each line: the TOP lasers s and the SIDE lasers s
OnEachLine(s) == s \cup { TOP_LASER_COUNT + i : i \in s }

\* the lasers that are lit
Lit == { i \in LaserIdx : brightness[i] > 0 }

\* C25: with no other effect active and dimmer 100 each preset lights
\* exactly its fixed index set at 255 and leaves every other laser at 0,
\* whatever the tick time: GRID all 28, BRACKET {0,1,2,11,12,13} on each
\* line (12 lit), CUBE {0,1,12,13} on each line, NINE_CUBES
\* {0,1,4,5,8,9,12,13} on each line; every preset lights at least one laser
C25_PresetIndexSets ==
  (QuietTick /\ tick.entry.dimmer = 100) =>
    /\ \A i \in LaserIdx : brightness[i] \in {0, 255}
    /\ Lit # {}
    /\ tick.entry.visual_preset = "GRID" => Lit = LaserIdx
    /\ tick.entry.visual_preset = "BRACKET" =>
         /\ Lit = OnEachLine({0, 1, 2, 11, 12, 13})
         /\ Cardinality(Lit) = 12
    /\ tick.entry.visual_preset = "CUBE" => Lit = OnEachLine({0, 1, 12, 13})
    /\ tick.entry.visual_preset = "NINE_CUBES" =>
         Lit = OnEachLine({0, 1, 4, 5, 8, 9, 12, 13})
    /\ \A k \in 0 .. MaxTime :
         Update(hist.pre, tick.entry, TickTime(k), 0, Shuffle(0)).b = brightness

\* a later tick of the NINE_CUBES preset
C25_Witness ==
  /\ QuietTick /\ tick.entry.dimmer = 100
  /\ tick.k = 2
  /\ tick.entry.visual_preset = "NINE_CUBES"
  /\ Cardinality(Lit) = 16

\* the leaves _register_handlers maps a specific handler for
RecognizedLeaves == { OscRoutes[i] : i \in 1 .. Len(OscRoutes) } \ {"*"}

\* C26: an inbound OSC message with a recognized leaf changes the controls
\* exactly as its specific handler does; the catch-all route does not run
\* for it, so the raw argument never overwrites a recognized control
C26_RecognizedLeafHandledOnce ==
  (last.op = "osc_message" /\ last.name \in RecognizedLeaves) =>
    controls = OscHandle(last.pre, last.name, last.value).controls

\* C27: after reset() the engine is as freshly constructed under the same
\* configuration: default controls, all 28 brightness values 0, the
\* Movement transient state cleared, every laser's DMX address back at
\* start_address + index
C27_ResetRestoresConstruction ==
  last.op = "reset" =>
    /\ controls = ControlsState
    /\ brightness = AllOff
    /\ movement = MovementInitState
    /\ dmx.address = initialize_lasers(dmx.start_address).address

\* a step that is a call of set_dmx_address
AddressStep == last'.op = "set_dmx_address" /\ nOps' = nOps + 1

\* C28: set_dmx_address(id, a) with an existing laser id and 1 <= a <= 512
\* returns True and changes exactly that laser's address to a; with an
\* unknown id or an address outside 1..512 it returns False and every
\* laser's address stays as it was
C28_SetDmxAddressFrame ==
  [][ AddressStep =>
        IF /\ \E i \in LaserIdx : LaserIds[i] = last'.name
           /\ last'.value \in 1 .. 512
        THEN /\ last'.ret
             /\ \A i \in LaserIdx :
                  dmx'.address[i] = IF LaserIds[i] = last'.name
                                    THEN last'.value ELSE dmx.address[i]
        ELSE /\ ~last'.ret
             /\ dmx'.address = dmx.address ]_vars

\* an accepted call moved top-0 to 100 after a rejected one left top-1 alone
C28_Witness ==
  /\ last.op = "set_dmx_address" /\ last.name = "top-0" /\ last.ret
  /\ dmx.address[0] = 100
  /\ dmx.address[1] = dmx.start_address + 1
  /\ nOps >= 2

\* the claim's bouncePeriod of the recorded call, in 1/PosDen steps
BouncePeriod ==
  Max((last.name - last.pre.scroll_laser_count) * PosDen,
      (last.name * PosDen) \div 2)

\* the claim's phase p = (time * rate) mod (2 * bouncePeriod)
LoopPhase == PyMod(last.value * last.pre.laser_move_speed, 2 * BouncePeriod)

\* C29: with loop_effect on, the progress is the folded triangle wave of
\* p = (time * rate) mod (2 * bouncePeriod), rate = laser_move_speed / 3,
\* bouncePeriod = max(period - scroll_laser_count, period / 2): p below
\* bouncePeriod and 2 * bouncePeriod - p from there on; it lies in
\* 0..bouncePeriod, moves by no more than the phase does from one time to
\* the next (no jump at the fold), and repeats every 2 * bouncePeriod
C29_LoopProgressTriangle ==
  (last.op = "calculate_progress" /\ last.pre.loop_effect) =>
    /\ ~last.raised
    /\ last.ret = IF LoopPhase < BouncePeriod THEN LoopPhase
                  ELSE 2 * BouncePeriod - LoopPhase
    /\ 0 <= last.ret /\ last.ret <= BouncePeriod
    /\ Abs(calculate_progress(last.name, last.value + 1, last.pre).p
             - last.ret) <= last.pre.laser_move_speed
    /\ \A m \in 0 .. LoopMaxTime :
         PyMod((m - last.value) * last.pre.laser_move_speed,
               2 * BouncePeriod) = 0
           => calculate_progress(last.name, m, last.pre).p = last.ret

\* the progress one time step past the fold of a 14-laser line, one full
\* period after it was first there
C29_Witness ==
  /\ last.op = "calculate_progress" /\ last.pre.loop_effect
  /\ last.pre.laser_move_speed = 72 /\ last.pre.scroll_laser_count = 8
  /\ last.name = 22 /\ last.value = 15 + 28
  /\ LoopPhase > BouncePeriod
  /\ last.ret = 13 * PosDen

\* the multiplier (per mille) of the manual ALL-mode formula
\* 0.2 + 0.8 * (sin(time * 2 * pi * frequency) + 1) / 2 at 2 Hz, the
\* frequency of the period 0.5 s, at time n / TimeDen
ManualMultAtTwoHz(n) == PulseMult1000(Sin1000(2 * n, TimeDen))

\* C30: at every tick time t >= 0 the beat-synced pulse with bpm 120 and
\* rate 1 scales the lit lasers by the multiplier the manual ALL-mode pulse
\* formula has at that time when driven at 2 Hz (period 0.5 s)
C30_BeatPulseEqualsManual ==
  ( /\ tick.k >= 0 /\ tick.status = "ok"
    /\ tick.entry.beat_sync_enabled /\ tick.entry.bpm = 120
    /\ tick.entry.beat_pulse_rate = "ONE" ) =>
    /\ BeatPulseMult1000(tick.entry, TickTime(tick.k))
         = ManualMultAtTwoHz(TickTime(tick.k))
    /\ \A i \in LaserIdx :
         brightness[i] =
           Scale1000(StagePreset(AllOff, tick.entry)[i],
                     ManualMultAtTwoHz(TickTime(tick.k)))

\* C31: whatever the number and interleaving of connect and disconnect
\* events, at most one simulator tick loop is ever started
C31_SingleTickLoop == web.loops <= 1

\* beat-synced movement was active in the last tick
BeatMoveTick ==
  /\ tick.k >= 0 /\ tick.status = "ok"
  /\ is_beat_effect_active(tick.entry.beat_sync_enabled, tick.entry.bpm,
                           tick.entry.beat_laser_move_speed_rate)
  /\ tick.entry.scroll_direction \notin {"NONE", "SPOT"}

\* the index k of the window [k*d, (k+1)*d) the time n / TimeDen falls in,
\* d = (60 / bpm) / rateMultiplier(moveRate)
BeatWindow(n) ==
  calculate_beat_phase(n, tick.entry.bpm,
                       tick.entry.beat_laser_move_speed_rate).cycle

\* the times around the last tick's that fall in its window
SameWindowTimes ==
  { n \in 0 .. (TickTime(tick.k) + TimeDen) :
      BeatWindow(n) = BeatWindow(TickTime(tick.k)) }

\* the last tick run at time n instead leaves the same brightness
SameOutputAt(n) ==
  Update(hist.pre, tick.entry, n, hist.dt, Shuffle(0)).b = brightness

\* C32: with beat-synced movement active the progress is computed from the
\* quantized time floor(t/d)*d: a tick anywhere in the same window
\* [k*d, (k+1)*d) gets the same position and the same brightness, and the
\* quantized time is never after t
C32_BeatQuantizedMovement ==
  BeatMoveTick =>
    /\ TimeTimesRate(TickTime(tick.k), tick.entry)
         <= TickTime(tick.k) * tick.entry.laser_move_speed
    /\ \A n \in SameWindowTimes :
         /\ TimeTimesRate(n, tick.entry)
              = TimeTimesRate(TickTime(tick.k), tick.entry)
         /\ SameOutputAt(n)

\* a tick in the second window of bpm 140 at rate 1, after the window's
\* start, with part of the TOP line lit
C32_Witness ==
  /\ BeatMoveTick
  /\ tick.entry.bpm = 140 /\ tick.entry.beat_laser_move_speed_rate = "ONE"
  /\ tick.entry.scroll_direction = "LEFT_TO_RIGHT"
  /\ tick.k = 1
  /\ BeatWindow(TickTime(1)) = 1
  /\ Cardinality(SameWindowTimes) > 1
  /\ TimeTimesRate(TickTime(1), tick.entry)
       < TickTime(1) * tick.entry.laser_move_speed
  /\ \E i \in LaserIdx : brightness[i] > 0

\* the four corner directions
CornerDirections == {"TO_TL", "TO_TR", "TO_BL", "TO_BR"}

\* C33: for each corner direction the distance of a TOP laser is even and
\* the distance of a SIDE laser is odd, and the 28 lasers get the 28
\* distinct distances 0..27
C33_CornerDistanceParity ==
  (tick.k >= 0 /\ tick.entry.scroll_direction \in CornerDirections) =>
    /\ \A i \in LaserIdx :
         DiagonalDist(tick.entry.scroll_direction, i) % 2
           = IF IsTop(i) THEN 0 ELSE 1
    /\ { DiagonalDist(tick.entry.scroll_direction, i) : i \in LaserIdx }
         = 0 .. (TotalLasers - 1)

\* some laser is lit after update() at time n / TimeDen from a fresh
\* Movement state under the controls of the last tick
LightsAt(n, dt, seed) ==
  \E i \in LaserIdx :
    Update(MovementInitState, tick.entry, n, dt, Shuffle(seed)).b[i] > 0

\* C34: every scroll direction other than NONE that set_control can select
\* has a movement strategy computing its wave: under the GRID preset and a
\* forward speed there is a tick time at which it lights a laser, so no
\* selectable direction leaves the array dark on every tick
C34_EveryDirectionHasStrategy ==
  ( /\ tick.k >= 0 /\ tick.status = "ok"
    /\ tick.entry.scroll_direction # "NONE"
    /\ tick.entry.visual_preset = "GRID"
    /\ tick.entry.laser_move_speed > 0 ) =>
    \E k \in 0 .. MaxTime, dt \in DeltaTimes, seed \in 0 .. (NumShuffles - 1) :
      LightsAt(TickTime(k), dt, seed)

\* C35: every update() call returns, for every control state set_control
\* can produce: the consume loop of the Spot accumulator always exits
C35_UpdateTerminates == tick.status # "hung"

\* C36: after a tick on which Movement ran with scroll_build_effect off the
\* build trail is empty: every entry of built_lasers is 0, whether the tick
\* ended or raised, so a tick with build switched on starts from no trail
C36_TrailEmptyWithBuildOff ==
  ( /\ tick.status \in {"ok", "raised"}
    /\ tick.entry.scroll_direction # "NONE"
    /\ ~tick.entry.scroll_build_effect )
    => \A i \in LaserIdx : movement.built_lasers[i] = 0

\* a tick ran a wave with build off right after ticks that left a trail:
\* the trail it found is gone
C36_Witness ==
  /\ WaveTick
  /\ ~tick.entry.scroll_build_effect
  /\ \E i \in LaserIdx : hist.pre.built_lasers[i] > 0
  /\ movement.built_lasers = ZeroMask

\* C37: while an axis direction is selected the other line is dark: after a
\* tick with L to R or R to L every SIDE laser is at 0, after a tick with
\* T to B or B to T every TOP laser is at 0, whatever the preset, build,
\* loop and phase settings
C37_AxisOtherLineDark ==
  tick.status \in {"ok", "raised"} =>
    /\ tick.entry.scroll_direction \in {"LEFT_TO_RIGHT", "RIGHT_TO_LEFT"}
         => \A i \in SideLasers : brightness[i] = 0
    /\ tick.entry.scroll_direction \in {"TOP_TO_BOTTOM", "BOTTOM_TO_TOP"}
         => \A i \in TopLasers : brightness[i] = 0

\* a tick swept the TOP line with build on right after ticks that swept the
\* SIDE line and left a trail there: a TOP laser is lit, the trail on the
\* SIDE line does not show
C37_Witness ==
  /\ MovementTick
  /\ tick.entry.scroll_direction \in {"LEFT_TO_RIGHT", "RIGHT_TO_LEFT"}
  /\ tick.entry.scroll_build_effect
  /\ \E i \in SideLasers : hist.pre.built_lasers[i] > 0
  /\ \E i \in TopLasers : brightness[i] > 0
  /\ \A i \in SideLasers : brightness[i] = 0

\* the values the pulse and the strobe slider are moved over
SliderValues == { 0, 12, 50, 100 }

\* the last tick run under the controls c instead leaves the same brightness
SameOutputUnder(c) ==
  Update(MovementInitState, c, TickTime(tick.k), 0, Shuffle(0)).b = brightness

\* the pulse stage of the last tick gives the same under c as under the
\* tick's controls
SamePulseStageUnder(c) ==
  StagePulse(StagePreset(AllOff, c), c, TickTime(tick.k))
    = StagePulse(StagePreset(AllOff, tick.entry), tick.entry, TickTime(tick.k))

\* the last tick ran with the beat-synced pulse active
BeatPulseTick ==
  /\ tick.k >= 0 /\ tick.status = "ok"
  /\ tick.entry.scroll_direction = "NONE"
  /\ is_beat_effect_active(tick.entry.beat_sync_enabled, tick.entry.bpm,
                           tick.entry.beat_pulse_rate)

\* the last tick ran with the beat-synced strobe active
BeatStrobeTick ==
  /\ tick.k >= 0 /\ tick.status = "ok"
  /\ tick.entry.scroll_direction = "NONE"
  /\ is_beat_effect_active(tick.entry.beat_sync_enabled, tick.entry.bpm,
                           tick.entry.beat_strobe_rate)

\* C38: beat mode takes precedence over manual mode.  With the beat-synced
\* pulse active the output of the tick is the same for every value of the
\* pulse slider, Pulse scales TOP and SIDE by the one beat multiplier and
\* gives the same under ALL and ALTERNATE (the whole output too when no
\* strobe runs); with the beat-synced strobe active the output is the same
\* for every value of the strobe slider.
C38_BeatModePrecedence ==
  /\ BeatPulseTick =>
       /\ \A p \in SliderValues :
            SameOutputUnder([ tick.entry EXCEPT !.pulse = p ])
       /\ \A a \in {"ALL", "ALTERNATE"} :
            /\ SamePulseStageUnder([ tick.entry EXCEPT !.effect_application = a ])
            /\ ~StrobeIsActive(tick.entry)
                 => SameOutputUnder([ tick.entry EXCEPT !.effect_application = a ])
       /\ \A i \in LaserIdx :
            StagePulse(StagePreset(AllOff, tick.entry), tick.entry,
                       TickTime(tick.k))[i]
              = Scale1000(StagePreset(AllOff, tick.entry)[i],
                          BeatPulseMult1000(tick.entry, TickTime(tick.k)))
  /\ BeatStrobeTick =>
       \A s \in SliderValues :
         SameOutputUnder([ tick.entry EXCEPT !.strobe = s ])

\* a tick ran with the beat-synced pulse active, the pulse slider at 50 and
\* lasers lit at a time where the manual pulse would have scaled them
\* otherwise
C38_Witness ==
  /\ BeatPulseTick
  /\ tick.entry.pulse = 50
  /\ \E i \in LaserIdx : brightness[i] > 0
  /\ brightness #
       Update(MovementInitState,
              [ tick.entry EXCEPT !.beat_sync_enabled = FALSE ],
              TickTime(tick.k), 0, Shuffle(0)).b

====
